---- MODULE Spec2Model ----
(***************************************************************************)
(* AdvancedSecurityManager of FocusFlow                                    *)
(* (src/backend/app/core/advanced_security.py): the rate limiter, the      *)
(* security event log and the JWT token service, over the Redis keys they  *)
(* share.  Time is in seconds.  A Redis key is present exactly while its   *)
(* remaining time to live is positive.                                     *)
(***************************************************************************)
EXTENDS Integers, Sequences, FiniteSets, TLC

VARIABLES
    now,              \* the wall clock, datetime.now(timezone.utc), in seconds
    rate_counters,    \* Redis rate_limit:{action}:{dimension}:{id} and
                      \* mfa_attempts:{user_id} -> [count, ttl]
    jwt_ledger,       \* Redis jwt:{jti} -> [user_id, token_type, ttl]
    security_events,  \* Redis list security_events, newest first
    security_alerts,  \* Redis list security_alerts, newest first
    minted,           \* the signed tokens that exist outside the service
    jti_drawn,        \* how many jti values secrets.token_hex has handed out
    mfa_setup,        \* Redis mfa_setup:{user_id} -> [secret, ttl]
    mfa_secret,       \* Redis mfa_secret:{user_id} -> the stored secret, no expiry
    user_ips,         \* Redis set user_ips:{user_id}
    user_agents,      \* Redis set user_agents:{user_id}
    workers,          \* the position of each worker inside the call it is running
    result            \* what the last call returned or raised

vars == <<now, rate_counters, jwt_ledger, security_events, security_alerts,
          minted, jti_drawn, mfa_setup, mfa_secret, user_ips, user_agents,
          workers, result>>

\* What the rate limiter and the token service never touch.
mfa_vars == <<mfa_setup, mfa_secret>>

\* The per-user history that the external user-activity store maintains.
history_vars == <<user_ips, user_agents>>

\* ------------------------------------------------------------------ bounds

\* Rejections stop being explored once the event log holds this many events.
MaxEvents == 2

\* At most this many tokens are minted.
MaxTokens == 2

\* At most this many workers serve requests concurrently.
MaxWorkers == 2

\* At most this many events are logged on top of the events a log starts with.
MaxLogged == 3

\* Threat evaluations stop being explored once the event log holds this many
\* events.
MaxThreatEvents == 1

\* Next to request workers, MFA validations are taken while the counter of the
\* user's attempts is below this.
MaxAttempts == 2

\* --------------------------------------------------------------- constants

\* Python's None, and a header that the request does not carry.
None == "<None>"

access_token_expire == 3600

refresh_token_expire == 604800

\* settings.ACCESS_TOKEN_EXPIRE_MINUTES, 30 minutes, in seconds.
legacy_token_expire == 30 * 60

rate_limits ==
    [ login          |-> [requests |-> 5,    window |-> 300],
      api_call       |-> [requests |-> 1000, window |-> 3600],
      ai_request     |-> [requests |-> 100,  window |-> 3600],
      password_reset |-> [requests |-> 3,    window |-> 3600],
      mfa_attempt    |-> [requests |-> 10,   window |-> 300] ]

\* The policy lookup that knows only the default policy.
limit_config_default_only(action) == [requests |-> 100, window |-> 3600]

\* self.rate_limits.get(action, {"requests": 100, "window": 3600})
limit_config(action) ==
    IF action \in DOMAIN rate_limits
    THEN rate_limits[action]
    ELSE [requests |-> 100, window |-> 3600]

\* ---------------------------------------------------------------- results

NoResult == [op |-> "none", status |-> "none", detail |-> "none", retry_after |-> 0,
             sub |-> None]

\* What a rejection raises: HTTPException(429) with retry_after read from
\* self.rate_limits[action], which is a KeyError for an action outside the table.
rate_limit_failure(action) ==
    IF action \in DOMAIN rate_limits
    THEN [NoResult EXCEPT !.op = "rate_limit", !.status = "429",
                          !.detail = "Rate limit exceeded",
                          !.retry_after = rate_limits[action].window]
    ELSE [NoResult EXCEPT !.op = "rate_limit", !.status = "KeyError"]

\* ------------------------------------------------------------ rate limiter

\* Python truthiness of an Optional[str].
Truthy(s) == s /= None /\ s /= ""

\* hashlib.md5(user_agent.encode()).hexdigest(): one digest per user agent.
md5(user_agent) ==
    CASE user_agent = "unknown"   -> "ad921d60"
      [] user_agent = "Mozilla"   -> "5d5e81d3"
      [] user_agent = "curl"      -> "7f6c8c9a"
      [] OTHER                    -> "d41d8cd9"

\* request.headers.get("user-agent", "unknown")
user_agent_of(request) ==
    IF request.user_agent = None THEN "unknown" ELSE request.user_agent

\* x-forwarded-for is the list of its comma-separated, stripped entries.
_get_client_ip(request) ==
    IF Len(request.forwarded_for) > 0 THEN Head(request.forwarded_for)
    ELSE IF Truthy(request.real_ip) THEN request.real_ip
    ELSE IF request.client_host /= None THEN request.client_host
    ELSE "unknown"

\* The counter keys of a request, in the order the code checks them.
rate_limit_keys(request, user_id, action) ==
    <<  <<action, "ip", _get_client_ip(request)>> >>
    \o (IF Truthy(user_id) THEN << <<action, "user", user_id>> >> ELSE << >>)
    \o << <<action, "ua", md5(user_agent_of(request))>> >>

\* The check with the comparison off by one: a counter at the quota still passes.
_check_rate_limit_inclusive(store, key, action) ==
    IF key \notin DOMAIN store
    THEN TRUE
    ELSE store[key].count <= limit_config(action).requests

_check_rate_limit(store, key, action) ==
    IF key \notin DOMAIN store
    THEN TRUE
    ELSE store[key].count < limit_config(action).requests

\* The increment alone, with no pipe.expire: a key it creates carries no TTL
\* (written 0) and a key it finds keeps the TTL it had.
_increment_without_expire(store, key, action) ==
    [k \in DOMAIN store \cup {key} |->
        IF k = key
        THEN [count |-> (IF key \in DOMAIN store THEN store[key].count ELSE 0) + 1,
              ttl   |-> IF key \in DOMAIN store THEN store[key].ttl ELSE 0]
        ELSE store[k]]

\* pipe.incr(key); pipe.expire(key, window); one MULTI/EXEC transaction.
_increment_rate_limit_counter(store, key, action) ==
    [k \in DOMAIN store \cup {key} |->
        IF k = key
        THEN [count |-> (IF key \in DOMAIN store THEN store[key].count ELSE 0) + 1,
              ttl   |-> limit_config(action).window]
        ELSE store[k]]

RECURSIVE increment_all(_, _, _)
increment_all(store, keys, action) ==
    IF keys = << >> THEN store
    ELSE increment_all(_increment_rate_limit_counter(store, Head(keys), action),
                       Tail(keys), action)

\* ------------------------------------------------------------- event log

\* The fields of a SecurityEvent that the callers set apart: event_type, severity,
\* details and risk_score (in hundredths).  event_id, timestamp, user_id,
\* ip_address and user_agent are copied from the request and never read back.
SecurityEvent(event_type, severity, details, risk_score) ==
    [event_type |-> event_type, severity |-> severity,
     details |-> details, risk_score |-> risk_score]

\* LTRIM list start stop keeps the elements start..stop, both included.
ltrim(list, start, stop) ==
    SubSeq(list, start + 1, IF Len(list) < stop + 1 THEN Len(list) ELSE stop + 1)

\* An event log that takes the event at its tail: rpush instead of lpush.
logged_events_at_tail(events, event) == ltrim(events \o <<event>>, 0, 10000)

\* An event log that takes every event twice.
logged_events_twice(events, event) == ltrim(<<event, event>> \o events, 0, 10000)

\* lpush then ltrim of security_events.
logged_events(events, event) == ltrim(<<event>> \o events, 0, 10000)

\* _trigger_security_alert for HIGH and CRITICAL events.
logged_alerts(alerts, event) ==
    IF event.severity \in {"high", "critical"}
    THEN << [alert_type |-> "security_threat", severity |-> event.severity,
             threat_type |-> event.event_type] >> \o alerts
    ELSE alerts

_log_security_event(event) ==
    /\ security_events' = logged_events(security_events, event)
    /\ security_alerts' = logged_alerts(security_alerts, event)

\* LRANGE list start stop: the elements start..stop, both included.
lrange(list, start, stop) ==
    SubSeq(list, start + 1, IF Len(list) < stop + 1 THEN Len(list) ELSE stop + 1)

\* list[:n]
first(list, n) == SubSeq(list, 1, IF Len(list) < n THEN Len(list) ELSE n)

\* What get_security_dashboard_data returns for the two lists as Redis holds
\* them.  risk_score is in hundredths, so "> 0.7" is "> 70".
dashboard_data(event_list, alert_list) ==
    LET events == lrange(event_list, 0, 100)
        alerts == lrange(alert_list, 0, 50)
        types == {events[i].event_type : i \in 1..Len(events)}
    IN  [ recent_events |-> first(events, 20),
          active_alerts |-> first(alerts, 10),
          threat_statistics |->
              [t \in types |->
                  Cardinality({i \in 1..Len(events) : events[i].event_type = t})],
          total_events |-> Len(events),
          high_risk_events |->
              Cardinality({i \in 1..Len(events) : events[i].risk_score > 70}) ]

\* ------------------------------------------------------------------ store

\* The keys of a store that are still alive d seconds later.
aged(store, d) ==
    [k \in {x \in DOMAIN store : store[x].ttl > d} |->
        [store[k] EXCEPT !.ttl = @ - d]]

\* ---------------------------------------------------------- token service

\* The secret that signs and verifies: AdvancedSecurityManager.secret_key, which
\* the application sets from settings.SECRET_KEY, the key of SecurityManager too.
secret_key == "settings.SECRET_KEY"

\* The names the jwt module (PyJWT, "import jwt" with jwt.encode and
\* jwt.decode(..., options=...)) exports for its exceptions.  JWTError is a
\* name of python-jose (security.py imports it from jose), not of PyJWT.
jwt_exceptions ==
    {"PyJWTError", "InvalidTokenError", "DecodeError", "InvalidSignatureError",
     "ExpiredSignatureError", "ImmatureSignatureError", "InvalidIssuedAtError",
     "InvalidAlgorithmError", "MissingRequiredClaimError"}

\* {**left, **right}: the keys of both, right winning.
merged(left, right) ==
    [k \in DOMAIN left \cup DOMAIN right |->
        IF k \in DOMAIN right THEN right[k] ELSE left[k]]

\* payload.get(name)
get(payload, name) == IF name \in DOMAIN payload THEN payload[name] ELSE None

\* jwt.encode(payload, key, algorithm="HS256"): the claims, with datetimes as
\* whole seconds (the clock here counts whole seconds), under a signature
\* that only the same key verifies.
jwt_encode(payload, key) == [form |-> "jws", payload |-> payload, signed_with |-> key]

\* jwt.decode(token, key, algorithms=["HS256"], options={"verify_exp": ...}):
\* the structure, then the signature, then nbf and exp against the clock.
jwt_decode(token, key, t, verify_exp) ==
    IF token.form /= "jws"
    THEN [error |-> "DecodeError", payload |-> << >>]
    ELSE IF token.signed_with /= key
    THEN [error |-> "InvalidSignatureError", payload |-> << >>]
    ELSE IF "nbf" \in DOMAIN token.payload /\ token.payload.nbf > t
    THEN [error |-> "ImmatureSignatureError", payload |-> << >>]
    ELSE IF verify_exp /\ "exp" \in DOMAIN token.payload /\ token.payload.exp <= t
    THEN [error |-> "ExpiredSignatureError", payload |-> << >>]
    ELSE [error |-> "none", payload |-> token.payload]

\* A jti source that repeats itself.
token_hex_repeating(drawn) == 1

\* secrets.token_hex(16): a non-empty string, a new one with every draw.
token_hex(drawn) == drawn + 1

\* The claims create_secure_jwt_token signs.
enhanced_payload(payload, token_type, jti, t) ==
    LET standard == merged(payload,
                        [iat |-> t, nbf |-> t, jti |-> jti, token_type |-> token_type])
    IN  IF token_type = "access"
        THEN merged(standard, [exp |-> t + access_token_expire])
        ELSE IF token_type = "refresh"
        THEN merged(standard, [exp |-> t + refresh_token_expire])
        ELSE standard

\* The record written under a key that validate_jwt_token never reads.
ledger_write_elsewhere(ledger, payload, token_type, jti) == ledger

\* redis.setex("jwt:{jti}", ttl, json.dumps({user_id, token_type}))
ledger_write(ledger, payload, token_type, jti) ==
    [k \in DOMAIN ledger \cup {jti} |->
        IF k = jti
        THEN [user_id |-> get(payload, "sub"), token_type |-> token_type,
              ttl |-> IF token_type = "access" THEN access_token_expire
                      ELSE refresh_token_expire]
        ELSE ledger[k]]

\* A delete that takes the whole ledger with it.
ledger_delete_all(ledger, jtis) == IF jtis = {} THEN ledger ELSE << >>

\* redis.delete("jwt:{jti}") for each jti of a set.
ledger_delete(ledger, jtis) == [k \in DOMAIN ledger \ jtis |-> ledger[k]]

\* Which except clause of validate_jwt_token takes an exception raised in its
\* try block.  The clauses are evaluated in order: jwt.ExpiredSignatureError,
\* then jwt.JWTError, whose evaluation raises AttributeError when the module
\* has no such name.  An HTTPException raised in the block passes the same way.
validate_raises(exception, detail) ==
    IF exception = "ExpiredSignatureError"
    THEN [NoResult EXCEPT !.op = "validate", !.status = "401",
                          !.detail = "Token has expired"]
    ELSE IF "JWTError" \notin jwt_exceptions
    THEN [NoResult EXCEPT !.op = "validate", !.status = "AttributeError",
                          !.detail = detail]
    ELSE IF exception = "HTTPException"
    THEN [NoResult EXCEPT !.op = "validate", !.status = "401", !.detail = detail]
    ELSE [NoResult EXCEPT !.op = "validate", !.status = "401",
                          !.detail = "Invalid token"]

\* A validation that looks the jti up in the ledger before it looks at exp.
validate_jwt_token_ledger_first(token, ledger, t) ==
    LET decoded == jwt_decode(token, secret_key, t, FALSE)
    IN  IF decoded.error /= "none"
        THEN validate_raises(decoded.error, "Invalid token")
        ELSE IF "jti" \in DOMAIN decoded.payload
                /\ decoded.payload.jti \notin DOMAIN ledger
        THEN validate_raises("HTTPException", "Token has been revoked")
        ELSE IF jwt_decode(token, secret_key, t, TRUE).error /= "none"
        THEN validate_raises(jwt_decode(token, secret_key, t, TRUE).error,
                             "Invalid token")
        ELSE [NoResult EXCEPT !.op = "validate", !.status = "payload",
                              !.sub = get(decoded.payload, "sub")]

\* validate_jwt_token(token) against a ledger at time t: what it returns or
\* raises.  A jti of create_secure_jwt_token is a non-empty string, so "if jti"
\* asks whether the claim is there.
validate_jwt_token(token, ledger, t) ==
    LET decoded == jwt_decode(token, secret_key, t, TRUE)
    IN  IF decoded.error /= "none"
        THEN validate_raises(decoded.error, "Invalid token")
        ELSE IF "jti" \in DOMAIN decoded.payload
                /\ decoded.payload.jti \notin DOMAIN ledger
        THEN validate_raises("HTTPException", "Token has been revoked")
        ELSE [NoResult EXCEPT !.op = "validate", !.status = "payload",
                              !.sub = get(decoded.payload, "sub")]

\* The Redis keys validate_jwt_token reads for a token at time t: the ledger
\* key of the jti, once the decode has passed and found a jti.
validate_reads(token, t) ==
    LET decoded == jwt_decode(token, secret_key, t, TRUE)
    IN  IF decoded.error = "none" /\ "jti" \in DOMAIN decoded.payload
        THEN {<<"jwt", decoded.payload.jti>>}
        ELSE {}

\* validate_jwt_token(token) at time t while Redis cannot be reached: the decode
\* needs no store; redis.exists raises redis.ConnectionError inside the try
\* block, which passes through the same except clauses.
validate_jwt_token_store_down(token, t) ==
    LET decoded == jwt_decode(token, secret_key, t, TRUE)
    IN  IF decoded.error /= "none"
        THEN validate_raises(decoded.error, "Invalid token")
        ELSE IF "jti" \in DOMAIN decoded.payload
        THEN validate_raises("ConnectionError", "Error connecting to Redis")
        ELSE [NoResult EXCEPT !.op = "validate", !.status = "payload",
                              !.sub = get(decoded.payload, "sub")]

\* The decode of revoke_jwt_token without options={"verify_exp": False}.
revoked_jti_verifying_exp(token, t) ==
    LET decoded == jwt_decode(token, secret_key, t, TRUE)
    IN  IF decoded.error = "none" /\ "jti" \in DOMAIN decoded.payload
        THEN {decoded.payload.jti}
        ELSE {}

\* The decode of revoke_jwt_token with the signature left unverified.
revoked_jti_unverified(token, t) ==
    IF token.form = "jws" /\ "jti" \in DOMAIN token.payload
    THEN {token.payload.jti}
    ELSE {}

\* The ledger keys revoke_jwt_token deletes: the token's jti, or nothing (and
\* it returns False) when the token does not decode or carries no jti.
revoked_jti(token, t) ==
    LET decoded == jwt_decode(token, secret_key, t, FALSE)
    IN  IF decoded.error = "none" /\ "jti" \in DOMAIN decoded.payload
        THEN {decoded.payload.jti}
        ELSE {}

\* ---------------------------------------------------------------------- MFA

\* The TTL of the staged enrollment secret, and "setup_expires_in".
setup_expires_in == 300

\* The period of a TOTP code, pyotp's default interval.
totp_interval == 30

\* self.encryption_key, derived from the secret key, and what Fernet makes of
\* a plaintext under a key: only the same key opens it again.
encryption_key == "pbkdf2(settings.SECRET_KEY)"

fernet_encrypt(plaintext, key) ==
    [form |-> "fernet", plaintext |-> plaintext, sealed_with |-> key]

\* fernet.decrypt: the plaintext, or InvalidToken for anything that is not a
\* Fernet token of this key.
fernet_decrypt(value, key) ==
    IF value.form = "fernet" /\ value.sealed_with = key
    THEN [error |-> "none", plaintext |-> value.plaintext]
    ELSE [error |-> "InvalidToken", plaintext |-> None]

\* pyotp.TOTP(secret).at(t): one code per secret and 30-second step.
totp_at(secret, t) == [secret |-> secret, step |-> t \div totp_interval]

\* totp.verify(token, valid_window=1): the code of the current step, of the one
\* before or of the one after.
totp_verify(secret, token, t) ==
    \E i \in {-1, 0, 1} : token = totp_at(secret, t + i * totp_interval)

\* A staging that forgets the expiry: redis.set instead of redis.setex.
staged_without_expiry(store, user_id, value) ==
    [k \in DOMAIN store \cup {user_id} |->
        IF k = user_id THEN [value |-> value, ttl |-> 604800] ELSE store[k]]

\* redis.setex("mfa_setup:{user_id}", 300, encrypted_secret)
staged(store, user_id, value) ==
    [k \in DOMAIN store \cup {user_id} |->
        IF k = user_id THEN [value |-> value, ttl |-> setup_expires_in] ELSE store[k]]

\* One key for the MFA attempts of all users.
mfa_key_shared(user_id) == <<"mfa_attempts", "all">>

\* The counter key of a user's MFA attempts.
mfa_key(user_id) == <<"mfa_attempts", user_id>>

\* A verification that falls back on the staged secret of the enrollment.
_validate_totp_token_staged(secrets, user_id, token, t) ==
    IF user_id \in DOMAIN secrets
    THEN LET opened == fernet_decrypt(secrets[user_id], encryption_key)
         IN  IF opened.error /= "none"
             THEN FALSE
             ELSE totp_verify(opened.plaintext, token, t)
    ELSE IF user_id \in DOMAIN mfa_setup
    THEN totp_verify(fernet_decrypt(mfa_setup[user_id].value,
                                    encryption_key).plaintext, token, t)
    ELSE FALSE

\* _validate_totp_token: False for a missing secret and for any exception.
_validate_totp_token(secrets, user_id, token, t) ==
    IF user_id \notin DOMAIN secrets
    THEN FALSE
    ELSE LET opened == fernet_decrypt(secrets[user_id], encryption_key)
         IN  IF opened.error /= "none"
             THEN FALSE
             ELSE totp_verify(opened.plaintext, token, t)

\* What validate_mfa_token returns, with the Redis keys the call has read.
mfa_result(value, detail, reads) ==
    merged([NoResult EXCEPT !.op = "validate_mfa",
                            !.status = IF value THEN "True" ELSE "False",
                            !.detail = detail],
           [reads |-> reads])

\* ------------------------------------------------------------ threat scorer

\* Python floats as exact fractions in lowest terms, den > 0.
RECURSIVE gcd(_, _)
gcd(a, b) == IF b = 0 THEN a ELSE gcd(b, a % b)

abs(x) == IF x < 0 THEN -x ELSE x

Rat(n, d) ==
    LET g == gcd(abs(n), abs(d))
        sign == IF d < 0 THEN -1 ELSE 1
    IN  [num |-> (sign * n) \div g, den |-> (sign * d) \div g]

RatAdd(a, b) == Rat(a.num * b.den + b.num * a.den, a.den * b.den)

RatMul(a, b) == Rat(a.num * b.num, a.den * b.den)

RatLess(a, b) == a.num * b.den < b.num * a.den

\* Python's min and max of two numbers: the first unless the second is beyond it.
min(a, b) == IF RatLess(b, a) THEN b ELSE a

max(a, b) == IF RatLess(a, b) THEN b ELSE a

\* activity.get(name, default)
get_or(dict, name, default) == IF name \in DOMAIN dict THEN dict[name] ELSE default

\* _get_user_typical_hours: the mean of {"mean": 12.0, "std": 4.0}.
typical_hours_mean == 12

\* redis.smembers of a key that may not exist.
_get_user_historical_ips(user_id) ==
    IF user_id \in DOMAIN user_ips THEN user_ips[user_id] ELSE {}

_get_user_historical_agents(user_id) ==
    IF user_id \in DOMAIN user_agents THEN user_agents[user_id] ELSE {}

\* The feature names in the order the dict receives them.
feature_names ==
    <<"hour_anomaly", "new_location", "new_device", "api_call_frequency",
      "data_access_volume", "failed_auth_ratio">>

_extract_behavioral_features(user_id, ip, user_agent, activity, current_hour) ==
    LET total_auths == get_or(activity, "total_auths", 1)
    IN  [ hour_anomaly |-> Rat(abs(current_hour - typical_hours_mean), 12),
          new_location |->
              IF ip \notin _get_user_historical_ips(user_id)
              THEN Rat(1, 1) ELSE Rat(0, 1),
          new_device |->
              IF user_agent \notin _get_user_historical_agents(user_id)
              THEN Rat(1, 1) ELSE Rat(0, 1),
          api_call_frequency |-> Rat(get_or(activity, "calls_per_minute", 0), 100),
          data_access_volume |-> Rat(get_or(activity, "data_accessed_mb", 0), 1000),
          failed_auth_ratio |->
              Rat(get_or(activity, "failed_auths", 0),
                  IF total_auths > 1 THEN total_auths ELSE 1) ]

weights ==
    [ hour_anomaly       |-> Rat(20, 100),
      new_location       |-> Rat(30, 100),
      new_device         |-> Rat(25, 100),
      api_call_frequency |-> Rat(15, 100),
      data_access_volume |-> Rat(10, 100),
      failed_auth_ratio  |-> Rat(40, 100) ]

\* A lookup that finds no feature in the table.
weight_default_only(feature) == Rat(10, 100)

\* weights.get(feature, 0.1)
weight(feature) ==
    IF feature \in DOMAIN weights THEN weights[feature] ELSE Rat(10, 100)

\* The loop over features.items(), from the first name on.
RECURSIVE weighted_sum(_, _)
weighted_sum(features, names) ==
    IF names = << >>
    THEN Rat(0, 1)
    ELSE RatAdd(RatMul(features[Head(names)], weight(Head(names))),
                weighted_sum(features, Tail(names)))

_calculate_risk_score(features) ==
    min(Rat(1, 1), max(Rat(0, 1), weighted_sum(features, feature_names)))

\* The levels with the comparisons strict.
_determine_threat_level_strict(risk_score) ==
    IF RatLess(Rat(80, 100), risk_score) THEN "critical"
    ELSE IF RatLess(Rat(60, 100), risk_score) THEN "high"
    ELSE IF RatLess(Rat(30, 100), risk_score) THEN "medium"
    ELSE "low"

_determine_threat_level(risk_score) ==
    IF ~RatLess(risk_score, Rat(80, 100)) THEN "critical"
    ELSE IF ~RatLess(risk_score, Rat(60, 100)) THEN "high"
    ELSE IF ~RatLess(risk_score, Rat(30, 100)) THEN "medium"
    ELSE "low"

\* The response ai_powered_threat_detection returns.
threat_response(risk_score, threat_level) ==
    merged([NoResult EXCEPT !.op = "threat_detection", !.status = threat_level],
           [ risk_score |-> risk_score,
             threat_level |-> threat_level,
             recommended_actions |->
                 IF threat_level = "high"
                 THEN <<"require_mfa", "additional_verification">>
                 ELSE IF threat_level = "critical"
                 THEN <<"block_access", "alert_admin", "require_account_verification">>
                 ELSE << >>,
             blocking_required |-> (threat_level = "critical") ])

\* A risk score as the event model keeps it, in whole hundredths.
hundredths(risk_score) == (risk_score.num * 100) \div risk_score.den

\* -------------------------------------------------------- password policy

\* A str is the sequence of its characters.  The ASCII letters, in order.
ascii_uppercase ==
    <<"A", "B", "C", "D", "E", "F", "G", "H", "I", "J", "K", "L", "M", "N", "O", "P", "Q", "R", "S", "T", "U", "V", "W", "X", "Y", "Z">>

ascii_lowercase ==
    <<"a", "b", "c", "d", "e", "f", "g", "h", "i", "j", "k", "l", "m", "n", "o", "p", "q", "r", "s", "t", "u", "v", "w", "x", "y", "z">>

\* c.isupper(), c.islower(), c.isdigit() for ASCII, and the special characters
\* of "!@#$%^&*()_+-=[]{}|;:,.<>?".
isupper(c) == \E i \in 1..Len(ascii_uppercase) : ascii_uppercase[i] = c

islower(c) == \E i \in 1..Len(ascii_lowercase) : ascii_lowercase[i] = c

isdigit(c) == c \in {"0", "1", "2", "3", "4", "5", "6", "7", "8", "9"}

special_characters ==
    {"!", "@", "#", "$", "%", "^", "&", "*", "(", ")", "_", "+", "-", "=", "[", "]",
     "{", "}", "|", ";", ":", ",", ".", "<", ">", "?"}

\* any(test(c) for c in password)
has_upper(password) == \E i \in 1..Len(password) : isupper(password[i])

has_lower(password) == \E i \in 1..Len(password) : islower(password[i])

has_digit(password) == \E i \in 1..Len(password) : isdigit(password[i])

has_special(password) == \E i \in 1..Len(password) : password[i] \in special_characters

\* str.lower()
lower(str) ==
    [i \in 1..Len(str) |->
        IF isupper(str[i])
        THEN ascii_lowercase[CHOOSE k \in 1..Len(ascii_uppercase) :
                                 ascii_uppercase[k] = str[i]]
        ELSE str[i]]

\* sub in str
contains(str, sub) ==
    \E i \in 1..(Len(str) - Len(sub) + 1) : SubSeq(str, i, i + Len(sub) - 1) = sub

\* str.split("@")[0]
RECURSIVE before_at(_)
before_at(str) ==
    IF str = << >> \/ Head(str) = "@" THEN << >>
    ELSE <<Head(str)>> \o before_at(Tail(str))

common_passwords ==
    { <<"p", "a", "s", "s", "w", "o", "r", "d", "1", "2", "3">>,
      <<"a", "d", "m", "i", "n", "1", "2", "3">>,
      <<"f", "o", "c", "u", "s", "f", "l", "o", "w", "1", "2", "3">> }

\* math.log2 of a charset size, in thousandths of a bit, rounded down.
log2_thousandths(charset_size) ==
    CASE charset_size = 10 -> 3321
      [] charset_size = 26 -> 4700
      [] charset_size = 32 -> 5000
      [] charset_size = 36 -> 5169
      [] charset_size = 42 -> 5392
      [] charset_size = 52 -> 5700
      [] charset_size = 58 -> 5857
      [] charset_size = 62 -> 5954
      [] charset_size = 68 -> 6087
      [] charset_size = 84 -> 6392
      [] charset_size = 94 -> 6554

\* _calculate_password_entropy, in thousandths of a bit.
_calculate_password_entropy(password) ==
    LET charset_size ==
            (IF has_lower(password) THEN 26 ELSE 0)
          + (IF has_upper(password) THEN 26 ELSE 0)
          + (IF has_digit(password) THEN 10 ELSE 0)
          + (IF has_special(password) THEN 32 ELSE 0)
    IN  IF charset_size > 0
        THEN Len(password) * log2_thousandths(charset_size)
        ELSE 0

\* _estimate_crack_time: the unit of the estimate.  2**entropy / 2e9 seconds is
\* under 60, 3600, 86400, 31536000 exactly when the entropy is under
\* 36.804, 42.711, 47.296, 55.808 bits.
_estimate_crack_time(entropy) ==
    IF entropy < 36804 THEN "Less than 1 minute"
    ELSE IF entropy < 42711 THEN "minutes"
    ELSE IF entropy < 47296 THEN "hours"
    ELSE IF entropy < 55808 THEN "days"
    ELSE "years"

\* A complexity check that stops at the first missing class.
character_issues_first_only(password) ==
    IF ~has_upper(password) THEN <<"Add uppercase letters">>
    ELSE IF ~has_lower(password) THEN <<"Add lowercase letters">>
    ELSE IF ~has_digit(password) THEN <<"Add numbers">>
    ELSE IF ~has_special(password) THEN <<"Add special characters">>
    ELSE << >>

\* The issues of the four "if not has_..." statements.
character_issues(password) ==
    (IF ~has_upper(password) THEN <<"Add uppercase letters">> ELSE << >>)
    \o (IF ~has_lower(password) THEN <<"Add lowercase letters">> ELSE << >>)
    \o (IF ~has_digit(password) THEN <<"Add numbers">> ELSE << >>)
    \o (IF ~has_special(password) THEN <<"Add special characters">> ELSE << >>)

\* validation_result of advanced_password_validation.
validation_result(password, user_context) ==
    LET user_name == lower(get_or(user_context, "name", << >>))
        user_email == before_at(lower(get_or(user_context, "email", << >>)))
        is_common == lower(password) \in common_passwords
        names_user == user_name /= << >> /\ contains(lower(password), user_name)
        names_email == user_email /= << >> /\ contains(lower(password), user_email)
        entropy == _calculate_password_entropy(password)
        issues ==
            (IF Len(password) < 12
             THEN <<"Password must be at least 12 characters long">> ELSE << >>)
            \o (IF Len(password) > 128
                THEN <<"Password is too long (max 128 characters)">> ELSE << >>)
            \o character_issues(password)
            \o (IF is_common THEN <<"Password is too common">> ELSE << >>)
            \o (IF names_user
                THEN <<"Password should not contain your name">> ELSE << >>)
            \o (IF names_email
                THEN <<"Password should not contain your email">> ELSE << >>)
            \o (IF entropy < 50000 THEN <<"Password has low entropy">> ELSE << >>)
        strength_score ==
            (IF has_upper(password) THEN 25 ELSE 0)
          + (IF has_lower(password) THEN 25 ELSE 0)
          + (IF has_digit(password) THEN 25 ELSE 0)
          + (IF has_special(password) THEN 25 ELSE 0)
          - (IF is_common THEN 50 ELSE 0)
          - (IF names_user THEN 30 ELSE 0)
          - (IF names_email THEN 30 ELSE 0)
        clamped == IF strength_score < 0 THEN 0
                   ELSE IF strength_score > 100 THEN 100 ELSE strength_score
    IN  [ is_valid |-> (Len(issues) = 0),
          strength_score |-> clamped,
          issues |-> issues,
          suggestions |->
              IF clamped < 80
              THEN <<"Use a passphrase with multiple words",
                     "Include numbers and special characters",
                     "Make it at least 16 characters long",
                     "Avoid predictable patterns">>
              ELSE << >>,
          estimated_crack_time |-> _estimate_crack_time(entropy) ]

\* ---------------------------------------------------------------- actions

\* The limiter with one loop: each key is checked and incremented in turn, so
\* a rejection comes after the keys before it have been incremented.
advanced_rate_limiting_one_loop(request, user_id, action) ==
    LET keys == rate_limit_keys(request, user_id, action)
        failing == {i \in 1..Len(keys) :
                       ~_check_rate_limit(rate_counters, keys[i], action)}
    IN  IF failing /= {}
        THEN LET j == CHOOSE i \in failing : \A other \in failing : i <= other
             IN  /\ Len(security_events) < MaxEvents
                 /\ rate_counters' =
                        increment_all(rate_counters, SubSeq(keys, 1, j - 1), action)
                 /\ _log_security_event(
                        SecurityEvent("api_abuse", "medium", action, 60))
                 /\ result' = rate_limit_failure(action)
                 /\ UNCHANGED <<now, jwt_ledger, minted, jti_drawn>>
                 /\ UNCHANGED <<mfa_vars, history_vars, workers>>
        ELSE /\ rate_counters' = increment_all(rate_counters, keys, action)
             /\ result' = [NoResult EXCEPT !.op = "rate_limit", !.status = "True"]
             /\ UNCHANGED <<now, jwt_ledger, security_events, security_alerts,
                            minted, jti_drawn, mfa_vars, history_vars, workers>>

advanced_rate_limiting(request, user_id, action) ==
    LET keys == rate_limit_keys(request, user_id, action)
        exceeded == \E i \in 1..Len(keys) :
                        ~_check_rate_limit(rate_counters, keys[i], action)
    IN  IF exceeded
        THEN /\ Len(security_events) < MaxEvents
             /\ _log_security_event(
                    SecurityEvent("api_abuse", "medium", action, 60))
             /\ result' = rate_limit_failure(action)
             /\ UNCHANGED <<now, rate_counters, jwt_ledger, minted, jti_drawn>>
             /\ UNCHANGED <<mfa_vars, history_vars, workers>>
        ELSE /\ rate_counters' = increment_all(rate_counters, keys, action)
             /\ result' = [NoResult EXCEPT !.op = "rate_limit", !.status = "True"]
             /\ UNCHANGED <<now, jwt_ledger, security_events, security_alerts,
                            minted, jti_drawn, mfa_vars, history_vars, workers>>

create_secure_jwt_token(payload, token_type) ==
    LET jti == token_hex(jti_drawn)
        claims == enhanced_payload(payload, token_type, jti, now)
    IN  /\ Cardinality(minted) < MaxTokens
        /\ jti_drawn' = jti_drawn + 1
        /\ jwt_ledger' = ledger_write(jwt_ledger, payload, token_type, jti)
        /\ minted' = minted \cup {jwt_encode(claims, secret_key)}
        /\ result' = [NoResult EXCEPT !.op = "issue", !.status = "token",
                                      !.sub = get(payload, "sub")]
        /\ UNCHANGED <<now, rate_counters, security_events, security_alerts,
                       mfa_vars, history_vars, workers>>

\* The process dies (or Redis fails) between signing and the ledger write: the
\* signed token exists and no record of it does.
create_secure_jwt_token_interrupted(payload, token_type) ==
    LET jti == token_hex(jti_drawn)
        claims == enhanced_payload(payload, token_type, jti, now)
    IN  /\ Cardinality(minted) < MaxTokens
        /\ jti_drawn' = jti_drawn + 1
        /\ minted' = minted \cup {jwt_encode(claims, secret_key)}
        /\ result' = [NoResult EXCEPT !.op = "issue", !.status = "interrupted"]
        /\ UNCHANGED <<now, rate_counters, jwt_ledger, security_events,
                       security_alerts, mfa_vars, history_vars, workers>>

\* SecurityManager.create_access_token of core/security.py: the same secret and
\* algorithm, exp and iat, and no jti.
create_access_token(data) ==
    /\ Cardinality(minted) < MaxTokens
    /\ minted' = minted \cup
            {jwt_encode(merged(data, [exp |-> now + legacy_token_expire, iat |-> now]),
                        secret_key)}
    /\ result' = [NoResult EXCEPT !.op = "legacy_issue", !.status = "token",
                                  !.sub = get(data, "sub")]
    /\ UNCHANGED <<now, rate_counters, jwt_ledger, security_events,
                   security_alerts, jti_drawn, mfa_vars, history_vars, workers>>

\* The result keeps, next to the outcome, the Redis keys the call has read.
ValidateJwtToken(token) ==
    /\ result' = merged(validate_jwt_token(token, jwt_ledger, now),
                        [reads |-> validate_reads(token, now)])
    /\ UNCHANGED <<now, rate_counters, jwt_ledger, security_events,
                   security_alerts, minted, jti_drawn, mfa_vars, history_vars, workers>>

revoke_jwt_token(token) ==
    LET jti == revoked_jti(token, now)
    IN  /\ jwt_ledger' = ledger_delete(jwt_ledger, jti)
        /\ result' = [NoResult EXCEPT !.op = "revoke",
                         !.status = IF jti = {} THEN "False" ELSE "True"]
        /\ UNCHANGED <<now, rate_counters, security_events, security_alerts,
                       minted, jti_drawn, mfa_vars, history_vars, workers>>

\* _setup_totp_mfa with the secret pyotp.random_base32() draws.
_setup_totp_mfa(user_id, secret) ==
    /\ mfa_setup' = staged(mfa_setup, user_id, fernet_encrypt(secret, encryption_key))
    /\ result' = merged([NoResult EXCEPT !.op = "enroll", !.status = "totp",
                                         !.sub = user_id],
                        [secret |-> secret, setup_expires_in |-> setup_expires_in])
    /\ UNCHANGED <<now, rate_counters, jwt_ledger, security_events, security_alerts,
                   minted, jti_drawn, mfa_secret, history_vars, workers>>

\* implement_multi_factor_authentication: the dispatch on the method.
implement_multi_factor_authentication(user_id, method, secret) ==
    IF method = "totp"
    THEN _setup_totp_mfa(user_id, secret)
    ELSE /\ result' =
                IF method \in {"sms", "email"}
                THEN merged([NoResult EXCEPT !.op = "enroll", !.status = method,
                                 !.detail = "not implemented yet", !.sub = user_id],
                            [setup_expires_in |-> setup_expires_in])
                ELSE [NoResult EXCEPT !.op = "enroll", !.status = "400",
                                      !.detail = "MFA method not implemented",
                                      !.sub = user_id]
         /\ UNCHANGED <<now, rate_counters, jwt_ledger, security_events,
                        security_alerts, minted, jti_drawn, mfa_vars, history_vars, workers>>

\* A validation that logs every attempt it lets through, verified or not.
validate_mfa_token_logging_attempts(user_id, token, method) ==
    IF ~_check_rate_limit(rate_counters, mfa_key(user_id), "mfa_attempt")
    THEN /\ Len(security_events) < MaxEvents
         /\ _log_security_event(
                SecurityEvent("brute_force", "high", "mfa_brute_force", 80))
         /\ result' = mfa_result(FALSE, "throttled", {mfa_key(user_id)})
         /\ UNCHANGED <<now, rate_counters, jwt_ledger, minted, jti_drawn,
                        mfa_vars, history_vars, workers>>
    ELSE /\ rate_counters' = _increment_rate_limit_counter(
                                 rate_counters, mfa_key(user_id), "mfa_attempt")
         /\ result' =
                IF method = "totp"
                THEN mfa_result(_validate_totp_token(mfa_secret, user_id, token, now),
                                "verified",
                                {mfa_key(user_id), <<"mfa_secret", user_id>>})
                ELSE mfa_result(FALSE, "unsupported", {mfa_key(user_id)})
         /\ security_events' =
                logged_events(security_events,
                              SecurityEvent("brute_force", "low", "mfa_attempt", 10))
         /\ UNCHANGED <<now, jwt_ledger, security_alerts, minted,
                        jti_drawn, mfa_vars, history_vars, workers>>

validate_mfa_token(user_id, token, method) ==
    IF ~_check_rate_limit(rate_counters, mfa_key(user_id), "mfa_attempt")
    THEN /\ Len(security_events) < MaxEvents
         /\ _log_security_event(
                SecurityEvent("brute_force", "high", "mfa_brute_force", 80))
         /\ result' = mfa_result(FALSE, "throttled", {mfa_key(user_id)})
         /\ UNCHANGED <<now, rate_counters, jwt_ledger, minted, jti_drawn,
                        mfa_vars, history_vars, workers>>
    ELSE /\ rate_counters' = _increment_rate_limit_counter(
                                 rate_counters, mfa_key(user_id), "mfa_attempt")
         /\ result' =
                IF method = "totp"
                THEN mfa_result(_validate_totp_token(mfa_secret, user_id, token, now),
                                "verified",
                                {mfa_key(user_id), <<"mfa_secret", user_id>>})
                ELSE mfa_result(FALSE, "unsupported", {mfa_key(user_id)})
         /\ UNCHANGED <<now, jwt_ledger, security_events, security_alerts, minted,
                        jti_drawn, mfa_vars, history_vars, workers>>

\* The external user store puts a value under mfa_secret:{user_id}, the key
\* _validate_totp_token reads.
store_mfa_secret(user_id, value) ==
    /\ mfa_secret' = [k \in DOMAIN mfa_secret \cup {user_id} |->
                         IF k = user_id THEN value ELSE mfa_secret[k]]
    /\ result' = [NoResult EXCEPT !.op = "store_mfa_secret", !.sub = user_id]
    /\ UNCHANGED <<now, rate_counters, jwt_ledger, security_events, security_alerts,
                   minted, jti_drawn, mfa_setup, history_vars, workers>>

\* One call of _log_security_event, from whichever caller.
log_security_event(event) ==
    /\ _log_security_event(event)
    /\ result' = [NoResult EXCEPT !.op = "log", !.status = event.severity,
                                  !.detail = event.event_type]
    /\ UNCHANGED <<now, rate_counters, jwt_ledger, minted, jti_drawn, mfa_vars,
                   history_vars, workers>>

\* get_security_dashboard_data: two reads and no write.
get_security_dashboard_data ==
    /\ result' = merged([NoResult EXCEPT !.op = "dashboard", !.status = "data"],
                        dashboard_data(security_events, security_alerts))
    /\ UNCHANGED <<now, rate_counters, jwt_ledger, security_events, security_alerts,
                   minted, jti_drawn, mfa_vars, history_vars, workers>>

\* An evaluation that adds the client it saw to the user's history.
ai_powered_threat_detection_remembering(user_id, request, activity_data, current_hour) ==
    LET client_ip == _get_client_ip(request)
        user_agent == IF request.user_agent = None THEN "" ELSE request.user_agent
        features == _extract_behavioral_features(user_id, client_ip, user_agent,
                                                 activity_data, current_hour)
        risk_score == _calculate_risk_score(features)
        threat_level == _determine_threat_level(risk_score)
    IN  /\ result' = merged(threat_response(risk_score, threat_level),
                            [call |-> [request |-> request,
                                       activity_data |-> activity_data,
                                       current_hour |-> current_hour]])
        /\ IF threat_level \in {"high", "critical"}
           THEN /\ _log_security_event(
                       SecurityEvent("unusual_activity", threat_level,
                                     [features |-> features,
                                      activity_data |-> activity_data],
                                     hundredths(risk_score)))
           ELSE UNCHANGED <<security_events, security_alerts>>
        /\ user_ips' = [k \in DOMAIN user_ips \cup {user_id} |->
                           _get_user_historical_ips(user_id) \cup {client_ip}]
        /\ user_agents' = [k \in DOMAIN user_agents \cup {user_id} |->
                              _get_user_historical_agents(user_id) \cup {user_agent}]
        /\ UNCHANGED <<now, rate_counters, jwt_ledger, minted, jti_drawn, mfa_vars,
                       workers>>

\* An evaluation that logs from the medium level on, every event as high.
ai_powered_threat_detection_logging_medium(user_id, request, activity_data, current_hour) ==
    LET client_ip == _get_client_ip(request)
        user_agent == IF request.user_agent = None THEN "" ELSE request.user_agent
        features == _extract_behavioral_features(user_id, client_ip, user_agent,
                                                 activity_data, current_hour)
        risk_score == _calculate_risk_score(features)
        threat_level == _determine_threat_level(risk_score)
    IN  /\ result' = merged(threat_response(risk_score, threat_level),
                            [call |-> [request |-> request,
                                       activity_data |-> activity_data,
                                       current_hour |-> current_hour]])
        /\ IF threat_level \in {"medium", "high", "critical"}
           THEN /\ _log_security_event(
                       SecurityEvent("unusual_activity", "high",
                                     [features |-> features,
                                      activity_data |-> activity_data],
                                     hundredths(risk_score)))
           ELSE UNCHANGED <<security_events, security_alerts>>
        /\ UNCHANGED <<now, rate_counters, jwt_ledger, minted, jti_drawn, mfa_vars,
                       history_vars, workers>>

\* The result keeps, next to the response, the arguments of the call it answers.
ai_powered_threat_detection(user_id, request, activity_data, current_hour) ==
    LET client_ip == _get_client_ip(request)
        user_agent == IF request.user_agent = None THEN "" ELSE request.user_agent
        features == _extract_behavioral_features(user_id, client_ip, user_agent,
                                                 activity_data, current_hour)
        risk_score == _calculate_risk_score(features)
        threat_level == _determine_threat_level(risk_score)
    IN  /\ result' = merged(threat_response(risk_score, threat_level),
                            [call |-> [request |-> request,
                                       activity_data |-> activity_data,
                                       current_hour |-> current_hour]])
        /\ IF threat_level \in {"high", "critical"}
           THEN /\ _log_security_event(
                       SecurityEvent("unusual_activity", threat_level,
                                     [features |-> features,
                                      activity_data |-> activity_data],
                                     hundredths(risk_score)))
           ELSE UNCHANGED <<security_events, security_alerts>>
        /\ UNCHANGED <<now, rate_counters, jwt_ledger, minted, jti_drawn, mfa_vars,
                       history_vars, workers>>

\* The external user-activity store adds a client to a user's history.
remember_client(user_id, ip, user_agent) ==
    /\ user_ips' = [k \in DOMAIN user_ips \cup {user_id} |->
                       _get_user_historical_ips(user_id) \cup {ip}]
    /\ user_agents' = [k \in DOMAIN user_agents \cup {user_id} |->
                          _get_user_historical_agents(user_id) \cup {user_agent}]
    /\ result' = [NoResult EXCEPT !.op = "remember_client", !.sub = user_id]
    /\ UNCHANGED <<now, rate_counters, jwt_ledger, security_events, security_alerts,
                   minted, jti_drawn, mfa_vars, workers>>

\* The result keeps, next to validation_result, the arguments of the call.
advanced_password_validation(password, user_context) ==
    /\ result' = merged([NoResult EXCEPT !.op = "password_validation"],
                        merged(validation_result(password, user_context),
                               [call |-> [password |-> password,
                                          user_context |-> user_context]]))
    /\ UNCHANGED <<now, rate_counters, jwt_ledger, security_events, security_alerts,
                   minted, jti_drawn, mfa_vars, history_vars, workers>>

\* validate_jwt_token while Redis cannot be reached.
ValidateJwtTokenStoreDown(token) ==
    /\ result' = merged(validate_jwt_token_store_down(token, now),
                        [store |-> "unreachable"])
    /\ UNCHANGED <<now, rate_counters, jwt_ledger, security_events,
                   security_alerts, minted, jti_drawn, mfa_vars, history_vars,
                   workers>>

\* advanced_rate_limiting while Redis cannot be reached: the first command, the
\* redis.get of _check_rate_limit for the IP key, raises redis.ConnectionError,
\* and nothing between it and the caller catches it.
advanced_rate_limiting_store_down(request, user_id, action) ==
    /\ result' = merged([NoResult EXCEPT !.op = "rate_limit",
                                         !.status = "ConnectionError",
                                         !.detail = "Error connecting to Redis"],
                        [store |-> "unreachable",
                         key |-> Head(rate_limit_keys(request, user_id, action))])
    /\ UNCHANGED <<now, rate_counters, jwt_ledger, security_events,
                   security_alerts, minted, jti_drawn, mfa_vars, history_vars,
                   workers>>

\* -------------------- advanced_rate_limiting, one await at a time, per worker

\* A worker between two requests.
Idle == [pc |-> "idle"]

\* A worker takes a request: the keys are computed without an await.
rate_limiting_begin(w, request, user_id, action) ==
    /\ workers[w].pc = "idle"
    /\ workers' = [workers EXCEPT ![w] =
                      [pc |-> "check", action |-> action, i |-> 1,
                       keys |-> rate_limit_keys(request, user_id, action)]]
    /\ UNCHANGED <<now, rate_counters, jwt_ledger, security_events, security_alerts,
                   minted, jti_drawn, mfa_vars, history_vars, result>>

\* One round of the first loop: await _check_rate_limit(key, action), and on a
\* counter at quota the logging of the event and the HTTPException.
rate_limiting_check(w) ==
    /\ workers[w].pc = "check"
    /\ LET self == workers[w]
       IN  IF _check_rate_limit(rate_counters, self.keys[self.i], self.action)
           THEN /\ workers' = [workers EXCEPT ![w] =
                                  IF self.i < Len(self.keys)
                                  THEN [self EXCEPT !.i = self.i + 1]
                                  ELSE [self EXCEPT !.pc = "increment", !.i = 1]]
                /\ UNCHANGED <<security_events, security_alerts, result>>
           ELSE /\ Len(security_events) < MaxEvents
                /\ _log_security_event(
                       SecurityEvent("api_abuse", "medium", self.action, 60))
                /\ result' = rate_limit_failure(self.action)
                /\ workers' = [workers EXCEPT ![w] = Idle]
    /\ UNCHANGED <<now, rate_counters, jwt_ledger, minted, jti_drawn, mfa_vars,
                   history_vars>>

\* One round of the second loop: await _increment_rate_limit_counter(key,
\* action), and after the last key the return of True.
rate_limiting_increment(w) ==
    /\ workers[w].pc = "increment"
    /\ LET self == workers[w]
       IN  /\ rate_counters' = _increment_rate_limit_counter(
                                   rate_counters, self.keys[self.i], self.action)
           /\ IF self.i < Len(self.keys)
              THEN /\ workers' = [workers EXCEPT ![w] = [self EXCEPT !.i = self.i + 1]]
                   /\ UNCHANGED result
              ELSE /\ workers' = [workers EXCEPT ![w] = Idle]
                   /\ result' = [NoResult EXCEPT !.op = "rate_limit",
                                                 !.status = "True"]
    /\ UNCHANGED <<now, jwt_ledger, security_events, security_alerts, minted,
                   jti_drawn, mfa_vars, history_vars>>

\* ------------------------- validate_mfa_token, one await at a time, per worker

\* A worker takes an MFA validation: the key is computed without an await.
validate_mfa_begin(w, user_id, token, method) ==
    /\ workers[w].pc = "idle"
    /\ workers' = [workers EXCEPT ![w] =
                      [pc |-> "mfa_check", user_id |-> user_id, token |-> token,
                       method |-> method]]
    /\ UNCHANGED <<now, rate_counters, jwt_ledger, security_events, security_alerts,
                   minted, jti_drawn, mfa_vars, history_vars, result>>

\* await _check_rate_limit(mfa_key, "mfa_attempt"), and on a counter at quota
\* the logging of the event and the return of False.
validate_mfa_check(w) ==
    /\ workers[w].pc = "mfa_check"
    /\ LET self == workers[w]
       IN  IF _check_rate_limit(rate_counters, mfa_key(self.user_id), "mfa_attempt")
           THEN /\ workers' = [workers EXCEPT ![w] = [self EXCEPT !.pc = "mfa_increment"]]
                /\ UNCHANGED <<security_events, security_alerts, result>>
           ELSE /\ Len(security_events) < MaxEvents
                /\ _log_security_event(
                       SecurityEvent("brute_force", "high", "mfa_brute_force", 80))
                /\ result' = mfa_result(FALSE, "throttled", {mfa_key(self.user_id)})
                /\ workers' = [workers EXCEPT ![w] = Idle]
    /\ UNCHANGED <<now, rate_counters, jwt_ledger, minted, jti_drawn, mfa_vars,
                   history_vars>>

\* await _increment_rate_limit_counter(mfa_key, "mfa_attempt"), and for a
\* method other than TOTP the return of False.
validate_mfa_increment(w) ==
    /\ workers[w].pc = "mfa_increment"
    /\ LET self == workers[w]
       IN  /\ rate_counters' = _increment_rate_limit_counter(
                                   rate_counters, mfa_key(self.user_id), "mfa_attempt")
           /\ IF self.method = "totp"
              THEN /\ workers' = [workers EXCEPT ![w] = [self EXCEPT !.pc = "mfa_verify"]]
                   /\ UNCHANGED result
              ELSE /\ workers' = [workers EXCEPT ![w] = Idle]
                   /\ result' = mfa_result(FALSE, "unsupported",
                                           {mfa_key(self.user_id)})
    /\ UNCHANGED <<now, jwt_ledger, security_events, security_alerts, minted,
                   jti_drawn, mfa_vars, history_vars>>

\* await _validate_totp_token(user_id, token)
validate_mfa_verify(w) ==
    /\ workers[w].pc = "mfa_verify"
    /\ LET self == workers[w]
       IN  /\ result' = mfa_result(
                            _validate_totp_token(mfa_secret, self.user_id, self.token, now),
                            "verified",
                            {mfa_key(self.user_id), <<"mfa_secret", self.user_id>>})
           /\ workers' = [workers EXCEPT ![w] = Idle]
    /\ UNCHANGED <<now, rate_counters, jwt_ledger, security_events, security_alerts,
                   minted, jti_drawn, mfa_vars, history_vars>>

\* d seconds pass: the clock advances and Redis expires what has run out.
Tick(d) ==
    /\ d > 0
    /\ now' = now + d
    /\ rate_counters' = aged(rate_counters, d)
    /\ jwt_ledger' = aged(jwt_ledger, d)
    /\ mfa_setup' = aged(mfa_setup, d)
    /\ UNCHANGED <<security_events, security_alerts, minted, jti_drawn,
                   mfa_secret, history_vars, workers, result>>

\* ----------------------------------------------------------------- inputs

\* Three clients: one behind a proxy, anonymous or signed in, with or without a
\* user-agent header, and one reaching the server directly.
Requests ==
    { [forwarded_for |-> <<"10.0.0.1", "10.9.9.9">>, real_ip |-> None,
       client_host |-> "10.0.0.2", user_agent |-> "Mozilla", user_id |-> None],
      [forwarded_for |-> <<"10.0.0.1", "10.9.9.9">>, real_ip |-> None,
       client_host |-> "10.0.0.2", user_agent |-> "Mozilla", user_id |-> ""],
      [forwarded_for |-> <<"10.0.0.1">>, real_ip |-> "10.0.0.3",
       client_host |-> "10.0.0.2", user_agent |-> None, user_id |-> "u1"],
      [forwarded_for |-> << >>, real_ip |-> "",
       client_host |-> "10.0.0.2", user_agent |-> "Mozilla", user_id |-> "u1"] }

Actions == {"password_reset"}

\* The instants at which the rate limiter is observed: half a window, a window and a
\* window and a half of the hourly policies.
Instants == {0, 1800, 3600, 5400}

Init ==
    /\ now = 0
    /\ rate_counters = << >>
    /\ jwt_ledger = << >>
    /\ security_events = << >>
    /\ security_alerts = << >>
    /\ minted = {}
    /\ jti_drawn = 0
    /\ mfa_setup = << >>
    /\ mfa_secret = << >>
    /\ user_ips = << >>
    /\ user_agents = << >>
    /\ workers = << >>
    /\ result = NoResult

RateLimit ==
    \E request \in Requests, action \in Actions :
        advanced_rate_limiting(request, request.user_id, action)

\* Logins of one anonymous client that sends no address headers: a second
\* policy, with its own quota and window.
LoginRequest ==
    [forwarded_for |-> << >>, real_ip |-> None, client_host |-> None,
     user_agent |-> "curl", user_id |-> None]

RateLimitLogin == advanced_rate_limiting(LoginRequest, LoginRequest.user_id, "login")

Advance == \E t \in Instants : Tick(t - now)

Next == RateLimit \/ RateLimitLogin \/ Advance

Spec == Init /\ [][Next]_vars

\* ------------------------------------- an action outside the policy table

\* "export" has no entry in rate_limits.
UnlistedActions == {"export"}

RateLimitUnlisted ==
    \E action \in UnlistedActions :
        advanced_rate_limiting(LoginRequest, LoginRequest.user_id, action)

NextDefault == RateLimitUnlisted \/ Advance

SpecDefault == Init /\ [][NextDefault]_vars

\* ------------------------------------------------------ the token service

Subjects == {"alice", "bob"}

TokenTypes == {"access", "refresh", "api"}

\* A string that is no JWT.
Garbage == [form |-> "garbage", payload |-> << >>, signed_with |-> "nobody"]

\* What a client can present: the tokens that exist, the same claims signed by
\* somebody without the secret, and garbage.
Presentable ==
    minted \cup {jwt_encode(t.payload, "attacker") : t \in minted} \cup {Garbage}

Issue ==
    \E sub \in Subjects, token_type \in TokenTypes :
        create_secure_jwt_token([sub |-> sub], token_type)

IssueInterrupted ==
    \E token_type \in TokenTypes :
        create_secure_jwt_token_interrupted([sub |-> "alice"], token_type)

LegacyIssue == create_access_token([sub |-> "alice"])

\* The instants at which the token service is observed: the end of a legacy
\* token's, an access token's and a refresh token's life.
TokenInstants == {0, 1800, 3600, 604800}

AdvanceTok == \E t \in TokenInstants : Tick(t - now)

Validate == \E token \in Presentable : ValidateJwtToken(token)

Revoke == \E token \in Presentable : revoke_jwt_token(token)

NextTok ==
    Issue \/ IssueInterrupted \/ LegacyIssue \/ Validate \/ Revoke \/ AdvanceTok

SpecTok == Init /\ [][NextTok]_vars

\* ------------------------------------------------------------------- MFA

Users == {"u1", "u2"}

Secrets == {"JBSWY3DP", "KRUGS4ZA"}

MFAMethod == {"totp", "sms", "email", "hardware_key"}

\* A code that no secret produces, the code of the first secret for the step
\* before 150 s, and its code for the first step.
WrongCode == [secret |-> "none", step |-> 0]

Codes == {WrongCode, totp_at("JBSWY3DP", 120), totp_at("JBSWY3DP", 0)}

\* The instants at which the MFA service is observed: half, one and one and a
\* half times the attempt window and the setup TTL.
MfaInstants == {0, 150, 300, 450}

\* The first user enrolls with any method and secret and tries any code; the
\* second user enrolls with TOTP.
Enroll ==
    \/ \E method \in MFAMethod, secret \in Secrets :
           implement_multi_factor_authentication("u1", method, secret)
    \/ implement_multi_factor_authentication("u2", "totp", "KRUGS4ZA")

StoreSecret ==
    store_mfa_secret("u1", fernet_encrypt("JBSWY3DP", encryption_key))

ValidateMfa ==
    \E token \in Codes, method \in {"totp", "sms"} :
        validate_mfa_token("u1", token, method)

AdvanceMfa == \E t \in MfaInstants : Tick(t - now)

NextMfa == Enroll \/ StoreSecret \/ ValidateMfa \/ AdvanceMfa

SpecMfa == Init /\ [][NextMfa]_vars

\* ------------------------------------------- MFA with and without a secret

\* What the external user store may hold under mfa_secret:{user_id}: the
\* secret sealed with the service's key, the secret sealed with another key,
\* and a value that is no Fernet token.
StoredValues ==
    { fernet_encrypt("JBSWY3DP", encryption_key),
      fernet_encrypt("JBSWY3DP", "pbkdf2(another key)"),
      [form |-> "plain", plaintext |-> "JBSWY3DP", sealed_with |-> None] }

StoreAnySecret == \E value \in StoredValues : store_mfa_secret("u1", value)

EnrollTotp == implement_multi_factor_authentication("u1", "totp", "JBSWY3DP")

\* The instants at which enrollment is observed: the start and the end of the
\* setup TTL.
EnrollmentInstants == {0, 300}

AdvanceEnrollment == \E t \in EnrollmentInstants : Tick(t - now)

NextEnrollment == EnrollTotp \/ StoreAnySecret \/ ValidateMfa \/ AdvanceEnrollment

SpecEnrollment == Init /\ [][NextEnrollment]_vars

\* ------------------------------------- MFA attempts next to request limits

\* A signed-in client calls the limiter, also under the action of the MFA
\* policy, while two users validate MFA codes.
SeparationRequest ==
    [forwarded_for |-> << >>, real_ip |-> None, client_host |-> "10.0.0.2",
     user_agent |-> "Mozilla", user_id |-> "u1"]

RateLimitMfaAction ==
    \E action \in {"mfa_attempt", "password_reset"} :
        advanced_rate_limiting(SeparationRequest, SeparationRequest.user_id, action)

ValidateMfaUsers ==
    \E user_id \in Users : validate_mfa_token(user_id, WrongCode, "totp")

\* The instants at which the counters are observed: the start and the end of
\* the MFA window.
SeparationInstants == {0, 300}

AdvanceSeparation == \E t \in SeparationInstants : Tick(t - now)

NextSeparation == RateLimitMfaAction \/ ValidateMfaUsers \/ AdvanceSeparation

SpecSeparation == Init /\ [][NextSeparation]_vars

\* ------------------------------------------------------------ the event log

\* An event logged before the observation starts.
EarlierEvent == SecurityEvent("credential_stuffing", "low", "earlier", 10)

\* How many events the log holds when the observation starts: none, or what
\* 9,999 or 10,000 calls of _log_security_event have left in it.
EarlierEvents == {0, 9999, 10000}

\* The events the callers log: a rate-limit rejection, a throttled MFA attempt
\* and the two threat evaluations that are logged.
LoggedEvents ==
    { SecurityEvent("api_abuse", "medium", "login", 60),
      SecurityEvent("brute_force", "high", "mfa_brute_force", 80),
      SecurityEvent("unusual_activity", "high", "features", 65),
      SecurityEvent("unusual_activity", "critical", "features", 95) }

InitLog ==
    /\ now = 0
    /\ rate_counters = << >>
    /\ jwt_ledger = << >>
    /\ \E n \in EarlierEvents : security_events = [i \in 1..n |-> EarlierEvent]
    /\ security_alerts = << >>
    /\ minted = {}
    /\ jti_drawn = 0
    /\ mfa_setup = << >>
    /\ mfa_secret = << >>
    /\ user_ips = << >>
    /\ user_agents = << >>
    /\ workers = << >>
    /\ result = NoResult

\* Events are logged until MaxLogged of them stand before the earlier ones.
LogEvent ==
    /\ IF Len(security_events) < MaxLogged
       THEN TRUE
       ELSE security_events[MaxLogged] = EarlierEvent
    /\ \E event \in LoggedEvents : log_security_event(event)

NextLog == LogEvent

SpecLog == InitLog /\ [][NextLog]_vars

\* ------------------------------------------------------------ the dashboard

\* How many events the log holds when the dashboard is first read: none, a
\* hundred, and three short of the cap.
DashboardLogSizes == {0, 100, 9997}

InitDashboard ==
    /\ now = 0
    /\ rate_counters = << >>
    /\ jwt_ledger = << >>
    /\ \E n \in DashboardLogSizes : security_events = [i \in 1..n |-> EarlierEvent]
    /\ security_alerts = << >>
    /\ minted = {}
    /\ jti_drawn = 0
    /\ mfa_setup = << >>
    /\ mfa_secret = << >>
    /\ user_ips = << >>
    /\ user_agents = << >>
    /\ workers = << >>
    /\ result = NoResult

Dashboard == get_security_dashboard_data

NextDashboard == LogEvent \/ Dashboard

SpecDashboard == InitDashboard /\ [][NextDashboard]_vars

\* ------------------------------------------------------------ the alert queue

\* A high-severity event logged, and alerted, before the observation starts.
EarlierHighEvent == SecurityEvent("brute_force", "high", "earlier", 80)

\* How many high-severity events were logged before the observation starts.
EarlierAlerts == {0, 9998}

InitAlerts ==
    /\ now = 0
    /\ rate_counters = << >>
    /\ jwt_ledger = << >>
    /\ \E n \in EarlierAlerts :
           /\ security_events = [i \in 1..n |-> EarlierHighEvent]
           /\ security_alerts =
                  [i \in 1..n |-> Head(logged_alerts(<< >>, EarlierHighEvent))]
    /\ minted = {}
    /\ jti_drawn = 0
    /\ mfa_setup = << >>
    /\ mfa_secret = << >>
    /\ user_ips = << >>
    /\ user_agents = << >>
    /\ workers = << >>
    /\ result = NoResult

\* Events are logged until MaxLogged of them stand before the earlier ones.
LogAlerting ==
    /\ IF Len(security_events) < MaxLogged
       THEN TRUE
       ELSE security_events[MaxLogged] = EarlierHighEvent
    /\ \E event \in LoggedEvents : log_security_event(event)

NextAlerts == LogAlerting

SpecAlerts == InitAlerts /\ [][NextAlerts]_vars

\* ------------------------- _log_security_event, one await at a time, per worker

\* An alert for whatever the severity of the event.
triggers_alert_always(event) == TRUE

\* The condition under which _log_security_event calls _trigger_security_alert.
triggers_alert(event) == event.severity \in {"high", "critical"}

\* The payload _trigger_security_alert builds from the event.
alert_data(event) ==
    [alert_type |-> "security_threat", severity |-> event.severity,
     threat_type |-> event.event_type]

\* A worker is handed an event and awaits the lpush on security_events.
log_lpush(w, event) ==
    /\ workers[w].pc = "idle"
    /\ security_events' = <<event>> \o security_events
    /\ workers' = [workers EXCEPT ![w] = [pc |-> "ltrim", event |-> event]]
    /\ UNCHANGED <<now, rate_counters, jwt_ledger, security_alerts, minted,
                   jti_drawn, mfa_vars, history_vars, result>>

\* await ltrim, the logger's warning, and the test of the severity: the call
\* returns here unless the event is HIGH or CRITICAL.
log_ltrim(w) ==
    /\ workers[w].pc = "ltrim"
    /\ security_events' = ltrim(security_events, 0, 10000)
    /\ LET self == workers[w]
       IN  IF triggers_alert(self.event)
           THEN /\ workers' = [workers EXCEPT ![w] = [self EXCEPT !.pc = "alert"]]
                /\ UNCHANGED result
           ELSE /\ workers' = [workers EXCEPT ![w] = Idle]
                /\ result' = [NoResult EXCEPT !.op = "log",
                                              !.status = self.event.severity,
                                              !.detail = self.event.event_type]
    /\ UNCHANGED <<now, rate_counters, jwt_ledger, security_alerts, minted,
                   jti_drawn, mfa_vars, history_vars>>

\* await _trigger_security_alert(event): the lpush on security_alerts.
log_alert(w) ==
    /\ workers[w].pc = "alert"
    /\ LET self == workers[w]
       IN  /\ security_alerts' = <<alert_data(self.event)>> \o security_alerts
           /\ result' = [NoResult EXCEPT !.op = "log",
                                         !.status = self.event.severity,
                                         !.detail = self.event.event_type]
    /\ workers' = [workers EXCEPT ![w] = Idle]
    /\ UNCHANGED <<now, rate_counters, jwt_ledger, security_events, minted,
                   jti_drawn, mfa_vars, history_vars>>

\* -------------------------------------------------------- the threat scorer

\* The local hour of the evaluation: the typical hour, midnight, late evening.
Hours == {12, 0, 21}

\* activity_data: nothing; the quiet user of the spec's scenario; failed
\* logins at 5 in 8, at 30 in 8 and at 3 in none; a negative call rate; a
\* large download.
ActivityData ==
    { [note |-> "empty"],
      [calls_per_minute |-> 5, data_accessed_mb |-> 10, failed_auths |-> 0],
      [failed_auths |-> 5, total_auths |-> 8],
      [failed_auths |-> 30, total_auths |-> 8],
      [failed_auths |-> 3, total_auths |-> 0],
      [calls_per_minute |-> -50],
      [data_accessed_mb |-> 500] }

\* One client behind a proxy and one that connects directly, with the same
\* browser.
ThreatRequests ==
    { request \in Requests :
          request.user_agent = "Mozilla" /\ request.user_id /= "" }

ThreatDetection ==
    /\ Len(security_events) < MaxThreatEvents
    /\ \E request \in ThreatRequests, activity_data \in ActivityData,
          current_hour \in Hours :
           ai_powered_threat_detection("u1", request, activity_data, current_hour)

RememberClient == remember_client("u1", "10.0.0.1", "Mozilla")

NextThreat == ThreatDetection \/ RememberClient

SpecThreat == Init /\ [][NextThreat]_vars

\* ------------------------------------------------------ the password policy

\* One character of each class, and two of no class.
ClassCharacters == <<"Q", "k", "7", "#">>

\* A pattern repeated to a length.
repeated(pattern, length) ==
    [i \in 1..length |-> pattern[((i - 1) % Len(pattern)) + 1]]

\* The characters of ClassCharacters at the positions wanted, or a space and a
\* tilde if none is wanted.
PatternOf(wanted) ==
    IF wanted = {} THEN <<" ", "~">>
    ELSE SelectSeq(ClassCharacters,
                   LAMBDA c : \E i \in wanted : ClassCharacters[i] = c)

\* Too short, long enough, and too long.
PasswordLengths == {4, 12, 130}

Passwords ==
    { repeated(PatternOf(wanted), length) :
          wanted \in SUBSET (1..4), length \in PasswordLengths }
    \cup { <<"P", "a", "s", "s", "w", "o", "r", "d", "1", "2", "3">>,
           <<"T", "e", "s", "t", "P", "a", "s", "s", "w", "o", "r", "d", "1", "2", "3", "!">>,
           <<"A", "l", "i", "c", "e", "#", "2", "0", "2", "5", "x", "y", "z">>,
           <<"a", "d", "m", "i", "n", "1", "2", "3">> }

UserContexts ==
    { [note |-> "none"],
      [name |-> <<"A", "l", "i", "c", "e">>],
      [email |-> <<"A", "l", "i", "c", "e", "@", "e", "x", "a", "m", "p", "l", "e", ".", "c", "o", "m">>],
      [name |-> <<"B", "o", "b">>, email |-> <<"a", "l", "i", "c", "e", "@", "e", "x", "a", "m", "p", "l", "e", ".", "c", "o", "m">>] }

PasswordValidation ==
    \E password \in Passwords, user_context \in UserContexts :
        advanced_password_validation(password, user_context)

NextPassword == PasswordValidation

SpecPassword == Init /\ [][NextPassword]_vars

\* ------------------------------------------------------- password hashing

\* The target of the calibration, in milliseconds.
target_time == 250

\* The time of one bcrypt hash, in milliseconds, on a server whose hash at
\* cost 10 takes `ten`: each step of the cost doubles the work.
hash_time(ten, cost) == ten * 2 ^ (cost - 10)

\* The loop of _determine_optimal_bcrypt_cost from a cost on: the cost it
\* ends with and the hashes it has timed.
RECURSIVE benchmark(_, _, _)
benchmark(cost, hashes, ten) ==
    IF cost < 15
    THEN IF hash_time(ten, cost) >= target_time
         THEN [cost |-> cost, hashes |-> hashes + 1]
         ELSE benchmark(cost + 1, hashes + 1, ten)
    ELSE [cost |-> cost, hashes |-> hashes]

\* return min(cost, 12)
_determine_optimal_bcrypt_cost(ten) ==
    LET cost == benchmark(10, 0, ten).cost
    IN  IF cost < 12 THEN cost ELSE 12

\* bcrypt.hashpw(password, gensalt(rounds)): the hash names its rounds and salt.
hashpw(password, rounds, salt) ==
    [rounds |-> rounds, salt |-> salt, password |-> password]

\* secure_password_hashing on a server that, during this call, hashes at cost
\* 10 in `ten` milliseconds.  The result keeps, next to the hash, the hashes
\* the call has timed.
secure_password_hashing(password, ten, salt) ==
    LET cost_factor == _determine_optimal_bcrypt_cost(ten)
    IN  /\ result' = merged([NoResult EXCEPT !.op = "hash", !.status = "hashed"],
                            [hashed |-> hashpw(password, cost_factor, salt),
                             benchmark_hashes |-> benchmark(10, 0, ten).hashes])
        /\ UNCHANGED <<now, rate_counters, jwt_ledger, security_events,
                       security_alerts, minted, jti_drawn, mfa_vars, history_vars,
                       workers>>

\* The passwords that are hashed: two that pass the validation.
HashedPasswords ==
    { <<"T", "e", "s", "t", "P", "a", "s", "s", "w", "o", "r", "d", "1", "2", "3", "!">>,
      <<"A", "l", "i", "c", "e", "#", "2", "0", "2", "5", "x", "y", "z">> }

\* What a hash at cost 10 takes, in milliseconds, under the load of the
\* moment: from a fast server to one that passes the target at once.
HashTimes == {10, 20, 70, 130, 260}

Salts == {"salt1", "salt2"}

SecurePasswordHashing ==
    \E password \in HashedPasswords, ten \in HashTimes, salt \in Salts :
        secure_password_hashing(password, ten, salt)

NextHashing == PasswordValidation \/ SecurePasswordHashing

SpecHashing == Init /\ [][NextHashing]_vars

\* ----------------------------------------------------- the store unreachable

\* Calls that find Redis unreachable, among calls that find it.
ValidateStoreDown == \E token \in Presentable : ValidateJwtTokenStoreDown(token)

RateLimitStoreDown ==
    \E request \in Requests, action \in {"api_call", "login"} :
        advanced_rate_limiting_store_down(request, request.user_id, action)

IssueAccess == \E sub \in Subjects : create_secure_jwt_token([sub |-> sub], "access")

NextOutage ==
    \/ IssueAccess
    \/ LegacyIssue
    \/ Validate
    \/ ValidateStoreDown
    \/ RateLimitStoreDown
    \/ AdvanceTok

SpecOutage == Init /\ [][NextOutage]_vars

\* ------------------------------------------------------- concurrent workers

\* One or more workers, each serving one request at a time.
InitWorkers ==
    /\ now = 0
    /\ rate_counters = << >>
    /\ jwt_ledger = << >>
    /\ security_events = << >>
    /\ security_alerts = << >>
    /\ minted = {}
    /\ jti_drawn = 0
    /\ mfa_setup = << >>
    /\ mfa_secret = << >>
    /\ user_ips = << >>
    /\ user_agents = << >>
    /\ \E n \in 1..MaxWorkers : workers = [w \in 1..n |-> Idle]
    /\ result = NoResult

\* Two clients at one address, with different user agents: they share the IP
\* counter and nothing else.
ConcurrentRequests ==
    {LoginRequest, [LoginRequest EXCEPT !.user_agent = "Mozilla"]}

Begin ==
    \E w \in DOMAIN workers, request \in ConcurrentRequests :
        rate_limiting_begin(w, request, request.user_id, "password_reset")

Check == \E w \in DOMAIN workers : rate_limiting_check(w)

Increment == \E w \in DOMAIN workers : rate_limiting_increment(w)

\* The instants at which the workers are observed: within a window and at its end.
WorkerInstants == {0, 1800, 3600}

AdvanceWorkers == \E t \in WorkerInstants : Tick(t - now)

NextWorkers == Begin \/ Check \/ Increment \/ AdvanceWorkers

SpecWorkers == InitWorkers /\ [][NextWorkers]_vars

\* Workers that log events of every severity.

\* The events of every severity: those the callers log, and a LOW one.
EventsOfEverySeverity == LoggedEvents \cup {EarlierEvent}

LogLpush ==
    /\ Len(security_events) < MaxLogged
    /\ \E w \in DOMAIN workers, event \in EventsOfEverySeverity : log_lpush(w, event)

LogLtrim == \E w \in DOMAIN workers : log_ltrim(w)

LogAlert == \E w \in DOMAIN workers : log_alert(w)

NextLogWorkers == LogLpush \/ LogLtrim \/ LogAlert

SpecLogWorkers == InitWorkers /\ [][NextLogWorkers]_vars

\* ------------------------- workers on request counters and on MFA attempts

\* Each worker serves a password reset of one client or an MFA validation of
\* one user.
BeginReset ==
    \E w \in DOMAIN workers :
        rate_limiting_begin(w, LoginRequest, LoginRequest.user_id, "password_reset")

\* MFA validations are taken while the user's counter is below MaxAttempts.
MfaBegin ==
    /\ IF mfa_key("u1") \in DOMAIN rate_counters
       THEN rate_counters[mfa_key("u1")].count < MaxAttempts
       ELSE TRUE
    /\ \E w \in DOMAIN workers, method \in {"totp", "sms"} :
           validate_mfa_begin(w, "u1", WrongCode, method)

MfaCheck == \E w \in DOMAIN workers : validate_mfa_check(w)

MfaIncrement == \E w \in DOMAIN workers : validate_mfa_increment(w)

MfaVerify == \E w \in DOMAIN workers : validate_mfa_verify(w)

\* The instants at which the counters are observed: within the two windows and
\* at their ends.
CounterInstants == {0, 300, 3600}

AdvanceCounters == \E t \in CounterInstants : Tick(t - now)

NextCounters ==
    \/ BeginReset
    \/ Check
    \/ Increment
    \/ MfaBegin
    \/ MfaCheck
    \/ MfaIncrement
    \/ MfaVerify
    \/ AdvanceCounters

SpecCounters == InitWorkers /\ [][NextCounters]_vars

\* ------------------------------------------- workers on one user's MFA codes

\* Every worker validates TOTP codes of the same user.
MfaBeginTotp ==
    \E w \in DOMAIN workers : validate_mfa_begin(w, "u1", WrongCode, "totp")

\* The instants at which the attempts are observed, all inside one window.
MfaWorkerInstants == {0, 150}

AdvanceMfaWorkers == \E t \in MfaWorkerInstants : Tick(t - now)

NextMfaWorkers ==
    MfaBeginTotp \/ MfaCheck \/ MfaIncrement \/ MfaVerify \/ AdvanceMfaWorkers

SpecMfaWorkers == InitWorkers /\ [][NextMfaWorkers]_vars

\* ================================================================ claims

\* Every action the specifications draw.
AllActions == Actions \cup {"login"} \cup UnlistedActions

AllRequests == Requests \cup {LoginRequest}

\* The action formula of one call of advanced_rate_limiting, for any input.
RateLimitCall(request, action) ==
    advanced_rate_limiting(request, request.user_id, action)

\* Some counter of the request stands at or above the action's quota.
AtOrAboveQuota(request, action) ==
    LET keys == rate_limit_keys(request, request.user_id, action)
    IN  \E i \in 1..Len(keys) :
            /\ keys[i] \in DOMAIN rate_counters
            /\ rate_counters[keys[i]].count >= limit_config(action).requests

\* Every counter of the request is absent or strictly below the quota.
AllBelowQuota(request, action) ==
    LET keys == rate_limit_keys(request, request.user_id, action)
    IN  \A i \in 1..Len(keys) :
            \/ keys[i] \notin DOMAIN rate_counters
            \/ rate_counters[keys[i]].count < limit_config(action).requests

\* C1: a request is admitted only if every one of its dimensions' counters is
\* strictly below the action's quota, and a request with any one counter at or
\* above the quota is rejected with the rate-limit failure (HTTP 429), whatever
\* the other counters are.
C1_AdmitsOnlyBelowQuota ==
    [][\A request \in AllRequests, action \in AllActions :
          RateLimitCall(request, action) =>
              /\ result'.status = "True" => AllBelowQuota(request, action)
              /\ AtOrAboveQuota(request, action) => result'.status = "429"]_vars

\* C2: the counter of a key counts the requests admitted on it in its window
\* and never passes the quota; a request on a key whose counter stands at the
\* quota is rejected; a throttled key's expiry is never pushed back, so the
\* key is gone once the window has passed, and a request whose keys are all
\* absent or under quota is admitted.
C2_ThrottledAtQuotaThenFree ==
    /\ [](\A k \in DOMAIN rate_counters :
             /\ rate_counters[k].count >= 1
             /\ rate_counters[k].count <= limit_config(k[1]).requests
             /\ rate_counters[k].ttl >= 1
             /\ rate_counters[k].ttl <= limit_config(k[1]).window)
    /\ [][/\ \A request \in AllRequests, action \in AllActions :
               RateLimitCall(request, action) =>
                   /\ AtOrAboveQuota(request, action) => result'.status /= "True"
                   /\ AllBelowQuota(request, action) =>
                          /\ result'.status = "True"
                          /\ LET keys == rate_limit_keys(request, request.user_id,
                                                         action)
                             IN  \A i \in 1..Len(keys) :
                                     /\ keys[i] \in DOMAIN rate_counters'
                                     /\ rate_counters'[keys[i]].count =
                                            (IF keys[i] \in DOMAIN rate_counters
                                             THEN rate_counters[keys[i]].count
                                             ELSE 0) + 1
          /\ \A k \in DOMAIN rate_counters :
               rate_counters[k].count >= limit_config(k[1]).requests =>
                   /\ k \in DOMAIN rate_counters' =>
                          /\ rate_counters'[k].count = rate_counters[k].count
                          /\ rate_counters'[k].ttl <= rate_counters[k].ttl
                   /\ now' - now >= limit_config(k[1]).window =>
                          k \notin DOMAIN rate_counters'
        ]_vars

\* A key was throttled and a rejection logged, the window passed, and the first
\* request after it has been admitted on fresh counters.
C2_Witness ==
    /\ Len(security_events) > 0
    /\ now >= 3600
    /\ result.status = "True"
    /\ \E k \in DOMAIN rate_counters : k[1] = "password_reset"
    /\ \A k \in DOMAIN rate_counters : rate_counters[k].count = 1

\* A token that create_secure_jwt_token (or its interrupted run) signed.
HasJti(token) == "jti" \in DOMAIN token.payload

Expired(token, t) == "exp" \in DOMAIN token.payload /\ token.payload.exp <= t

HasRecord(token, ledger) == HasJti(token) /\ token.payload.jti \in DOMAIN ledger

Accepts(token, ledger, t) == validate_jwt_token(token, ledger, t).status = "payload"

FailsRevoked(token, ledger, t) ==
    /\ validate_jwt_token(token, ledger, t).status = "401"
    /\ validate_jwt_token(token, ledger, t).detail = "Token has been revoked"

\* C3: validate_jwt_token returns a payload only for a token whose ledger
\* record exists: a correctly signed, unexpired token without a record,
\* whatever the reason, a missing jti included, is rejected.
C3_AcceptedOnlyWithLedgerRecord ==
    \A token \in Presentable :
        Accepts(token, jwt_ledger, now) => HasRecord(token, jwt_ledger)

\* C4: a token issued with type access and validated at once is accepted, and
\* the payload returned carries the subject it was issued for.
C4_IssueValidateRoundTrip ==
    [][\A sub \in Subjects :
          create_secure_jwt_token([sub |-> sub], "access") =>
              \A token \in minted' \ minted :
                  /\ validate_jwt_token(token, jwt_ledger', now').status = "payload"
                  /\ validate_jwt_token(token, jwt_ledger', now').sub = sub]_vars

\* An access token has just been issued, with others around it.
C4_Witness ==
    /\ result.op = "issue"
    /\ result.status = "token"
    /\ result.sub = "bob"
    /\ Cardinality(minted) = 2
    /\ \E token \in minted :
           /\ HasJti(token)
           /\ token.payload.jti = jti_drawn
           /\ token.payload.token_type = "access"
           /\ token.payload.sub = "bob"
           /\ token.payload.iat = now

\* C5: once revoke_jwt_token(token) has returned for an issued token, every
\* later validation of it, while it is unexpired, fails with the Revoked
\* outcome (401, "Token has been revoked").
C5_RevokedFailsAsRevoked ==
    [][\A token \in minted :
          (HasJti(token) /\ ~Expired(token, now')
             /\ (revoke_jwt_token(token) \/ FailsRevoked(token, jwt_ledger, now)))
          => FailsRevoked(token, jwt_ledger', now')]_vars

\* C6: revoke_jwt_token on an issued token, expired or not, returns True, and a
\* second call on the same token returns True as well (it does not raise) and
\* leaves the ledger as the first call left it.
C6_RevokeIdempotent ==
    [][\A token \in minted :
          (HasJti(token) /\ revoke_jwt_token(token)) =>
              /\ result'.status = "True"
              /\ revoked_jti(token, now') /= {}
              /\ ledger_delete(jwt_ledger', revoked_jti(token, now')) = jwt_ledger'
              /\ ~HasRecord(token, jwt_ledger')]_vars

\* An issued token that has expired has been revoked, with another token's
\* record left in the ledger.
C6_Witness ==
    /\ result.op = "revoke"
    /\ result.status = "True"
    /\ DOMAIN jwt_ledger /= {}
    /\ \E token \in minted :
           HasJti(token) /\ Expired(token, now) /\ ~HasRecord(token, jwt_ledger)

\* C7: once a token has expired or has no ledger record, no later issue,
\* validate, revoke or passing of time makes validate_jwt_token accept it.
C7_TerminalStatesAbsorbing ==
    /\ [](\A token \in minted :
             (Expired(token, now) \/ (HasJti(token) /\ ~HasRecord(token, jwt_ledger)))
             => ~Accepts(token, jwt_ledger, now))
    /\ [][\A token \in minted :
             (Expired(token, now) \/ (HasJti(token) /\ ~HasRecord(token, jwt_ledger)))
             => ~Accepts(token, jwt_ledger', now')]_vars

\* A revoked, unexpired token, a token issued after it whose record is in the
\* ledger, and a validation that has just failed.
C7_Witness ==
    /\ result.op = "validate"
    /\ result.status /= "payload"
    /\ \E token \in minted, later \in minted :
           /\ HasJti(token) /\ HasJti(later)
           /\ token.payload.jti < later.payload.jti
           /\ ~Expired(token, now)
           /\ ~HasRecord(token, jwt_ledger)
           /\ HasRecord(later, jwt_ledger)
           /\ token.payload.sub = later.payload.sub

\* C8: every failure of validate_jwt_token, for a malformed or wrongly signed,
\* an expired or a revoked token, is the 401 authentication failure; nothing
\* else escapes.
C8_ValidateFailsOnlyWith401 ==
    \A token \in Presentable :
        validate_jwt_token(token, jwt_ledger, now).status \in {"payload", "401"}

\* C9: every rejection by advanced_rate_limiting appends exactly one
\* SecurityEvent of type api_abuse at medium severity to the event log and
\* raises the 429 failure with retry_after equal to the action's window.
C9_RejectionLogsAndRaises429 ==
    [][\A request \in AllRequests, action \in AllActions :
          (RateLimitCall(request, action) /\ AtOrAboveQuota(request, action)) =>
              /\ Len(security_events') = Len(security_events) + 1
              /\ Head(security_events').event_type = "api_abuse"
              /\ Head(security_events').severity = "medium"
              /\ Tail(security_events') = security_events
              /\ security_alerts' = security_alerts
              /\ result'.status = "429"
              /\ result'.retry_after = limit_config(action).window]_vars

\* C10: for an action outside the policy table the first 100 requests on an
\* identifier are admitted and the 101st is rejected with the rate-limit
\* failure whose retry_after is 3600.
C10_DefaultPolicyOnEveryPath ==
    [][\A action \in UnlistedActions :
          RateLimitCall(LoginRequest, action) =>
              LET key == <<action, "ip", _get_client_ip(LoginRequest)>>
                  count == IF key \in DOMAIN rate_counters
                           THEN rate_counters[key].count ELSE 0
              IN  /\ count < 100 => result'.status = "True"
                  /\ count = 100 =>
                         /\ result'.status = "429"
                         /\ result'.retry_after = 3600]_vars

\* How many attempts the counter of a user's MFA attempts stands at.
MfaAttempts(user_id) ==
    IF mfa_key(user_id) \in DOMAIN rate_counters
    THEN rate_counters[mfa_key(user_id)].count
    ELSE 0

\* C11: the attempt counter of a user stays while less than its TTL passes and
\* every attempt that is let through sets that TTL to 300 s and counts one
\* more; a validate_mfa_token call that finds fewer than 10 attempts counted is
\* not throttled and, for TOTP, goes on to verify the code against the stored
\* secret, right or wrong; the call that finds 10 counted is throttled.
C11_TenAttemptsThenThrottled ==
    /\ [](\A user_id \in Users :
             mfa_key(user_id) \in DOMAIN rate_counters =>
                 /\ MfaAttempts(user_id) \in 1..10
                 /\ rate_counters[mfa_key(user_id)].ttl \in 1..300)
    /\ [][\A user_id \in Users :
            /\ (/\ mfa_key(user_id) \in DOMAIN rate_counters
                /\ now' - now < rate_counters[mfa_key(user_id)].ttl)
               => /\ mfa_key(user_id) \in DOMAIN rate_counters'
                  /\ rate_counters'[mfa_key(user_id)].count >= MfaAttempts(user_id)
            /\ \A token \in Codes, method \in MFAMethod :
                 validate_mfa_token(user_id, token, method) =>
                     /\ MfaAttempts(user_id) < 10 =>
                            /\ result'.detail /= "throttled"
                            /\ rate_counters'[mfa_key(user_id)].count =
                                   MfaAttempts(user_id) + 1
                            /\ rate_counters'[mfa_key(user_id)].ttl = 300
                            /\ method = "totp" =>
                                   /\ result'.detail = "verified"
                                   /\ <<"mfa_secret", user_id>> \in result'.reads
                     /\ MfaAttempts(user_id) >= 10 => result'.detail = "throttled"
         ]_vars

\* Ten attempts spread over 150 s have been counted and the eleventh, inside
\* the same 300 s, has been throttled.
C11_Witness ==
    /\ now = 150
    /\ MfaAttempts("u1") = 10
    /\ rate_counters[mfa_key("u1")].ttl < 300
    /\ result.op = "validate_mfa"
    /\ result.detail = "throttled"

\* C12: a throttled validate_mfa_token call returns False, puts exactly one
\* SecurityEvent, brute_force at high severity, at the head of the event log,
\* reads nothing but the attempt counter (no MFA secret) and leaves every
\* counter as it was.
C12_ThrottledLogsAndSkipsVerification ==
    [][\A user_id \in Users, token \in Codes, method \in MFAMethod :
          (/\ validate_mfa_token(user_id, token, method)
           /\ ~_check_rate_limit(rate_counters, mfa_key(user_id), "mfa_attempt"))
          => /\ result'.status = "False"
             /\ Len(security_events') = Len(security_events) + 1
             /\ Tail(security_events') = security_events
             /\ Head(security_events').event_type = "brute_force"
             /\ Head(security_events').severity = "high"
             /\ result'.reads = {mfa_key(user_id)}
             /\ rate_counters' = rate_counters
             /\ mfa_secret' = mfa_secret]_vars

\* A user with a stored secret has been throttled twice, the second time after
\* half a window, and each time one event was logged.
C12_Witness ==
    /\ result.op = "validate_mfa"
    /\ result.detail = "throttled"
    /\ result.status = "False"
    /\ "u1" \in DOMAIN mfa_secret
    /\ Len(security_events) = 2
    /\ \A i \in 1..2 : security_events[i].event_type = "brute_force"
    /\ now = 150

\* C13: the secret staged under mfa_setup:{user_id} is there only with a
\* remaining TTL between 1 and 300 s; it is (re)staged with 300 s by a TOTP
\* enrollment of that user and by nothing else, and otherwise its TTL runs
\* down with the clock, so it is gone once 300 s have passed since the user's
\* latest enrollment.
C13_StagedSecretGoneAfter300 ==
    /\ [](\A user_id \in DOMAIN mfa_setup :
             /\ mfa_setup[user_id].ttl >= 1
             /\ mfa_setup[user_id].ttl <= 300)
    /\ [][\A user_id \in Users :
            /\ user_id \in DOMAIN mfa_setup' =>
                 \/ \E secret \in Secrets : _setup_totp_mfa(user_id, secret)
                 \/ /\ user_id \in DOMAIN mfa_setup
                    /\ mfa_setup'[user_id].value = mfa_setup[user_id].value
                    /\ mfa_setup'[user_id].ttl =
                           mfa_setup[user_id].ttl - (now' - now)
            /\ \A secret \in Secrets :
                 _setup_totp_mfa(user_id, secret) =>
                     /\ mfa_setup'[user_id].ttl = 300
                     /\ fernet_decrypt(mfa_setup'[user_id].value,
                                       encryption_key).plaintext = secret
            /\ (/\ user_id \in DOMAIN mfa_setup
                /\ now' - now >= mfa_setup[user_id].ttl)
               => user_id \notin DOMAIN mfa_setup'
         ]_vars

\* The last call was a TOTP enrollment, 300 s have passed since it and nothing
\* is staged any more.
C13_Witness ==
    /\ result.op = "enroll"
    /\ result.status = "totp"
    /\ now = 300
    /\ mfa_setup = << >>

\* C14: after any sequence of logged events the event log holds at most
\* 10,000 events.
C14_LogHoldsAtMost10000 == Len(security_events) <= 10000

\* The weighted sum of the claim, written out, and its clamp to [0,1].
ClaimedScore(f) ==
    LET sum ==
            RatAdd(RatMul(Rat(2, 10), f.hour_anomaly),
            RatAdd(RatMul(Rat(3, 10), f.new_location),
            RatAdd(RatMul(Rat(25, 100), f.new_device),
            RatAdd(RatMul(Rat(15, 100), f.api_call_frequency),
            RatAdd(RatMul(Rat(1, 10), f.data_access_volume),
                   RatMul(Rat(4, 10), f.failed_auth_ratio))))))
    IN  IF RatLess(sum, Rat(0, 1)) THEN Rat(0, 1)
        ELSE IF RatLess(Rat(1, 1), sum) THEN Rat(1, 1)
        ELSE sum

\* The features of an evaluation, as ai_powered_threat_detection extracts them.
FeaturesOf(request, activity_data, current_hour) ==
    _extract_behavioral_features(
        "u1", _get_client_ip(request),
        IF request.user_agent = None THEN "" ELSE request.user_agent,
        activity_data, current_hour)

\* C15: the risk score of every evaluation is the weighted sum
\* 0.2*hour + 0.3*location + 0.25*device + 0.15*calls + 0.1*volume +
\* 0.4*failed, clamped to [0,1], and so lies in [0,1], also when the failed
\* logins outnumber the logins or an activity value is negative.
C15_ScoreIsClampedWeightedSum ==
    [][result'.op = "threat_detection" =>
          LET call == result'.call
          IN  /\ ai_powered_threat_detection("u1", call.request, call.activity_data,
                                             call.current_hour)
              /\ result'.risk_score =
                     ClaimedScore(FeaturesOf(call.request, call.activity_data,
                                             call.current_hour))
              /\ ~RatLess(result'.risk_score, Rat(0, 1))
              /\ ~RatLess(Rat(1, 1), result'.risk_score)]_vars

\* An evaluation at midnight, from an unknown client, with more failed logins
\* than logins was clamped to 1 and logged.
C15_Witness ==
    /\ result.op = "threat_detection"
    /\ result.risk_score = Rat(1, 1)
    /\ result.call.current_hour = 0
    /\ result.call.activity_data.failed_auths = 30
    /\ Len(security_events) = 1
    /\ security_events[1].risk_score = 100
    /\ RatLess(Rat(1, 1), security_events[1].details.features.failed_auth_ratio)

\* The level and the response the claim gives for a score.
ClaimedLevel(risk_score) ==
    CASE ~RatLess(risk_score, Rat(8, 10)) -> "critical"
      [] RatLess(risk_score, Rat(8, 10)) /\ ~RatLess(risk_score, Rat(6, 10)) -> "high"
      [] RatLess(risk_score, Rat(6, 10)) /\ ~RatLess(risk_score, Rat(3, 10)) -> "medium"
      [] OTHER -> "low"

ResponseAsClaimed(response) ==
    /\ response.threat_level = ClaimedLevel(response.risk_score)
    /\ response.blocking_required = (response.threat_level = "critical")
    /\ response.threat_level = "high" =>
           response.recommended_actions = <<"require_mfa", "additional_verification">>
    /\ response.threat_level \in {"low", "medium"} =>
           response.recommended_actions = << >>

\* C16: for every score (every hundredth from 0 to 1, and the score of every
\* evaluation) the level is critical from 0.8, high from 0.6, medium from 0.3
\* and low below; blocking is required exactly at critical; high recommends
\* MFA and additional verification without blocking; low and medium
\* recommend nothing.
C16_LevelsAndResponse ==
    /\ [](\A k \in 0..100 :
             ResponseAsClaimed(
                 threat_response(Rat(k, 100), _determine_threat_level(Rat(k, 100)))))
    /\ [][result'.op = "threat_detection" =>
             /\ ai_powered_threat_detection("u1", result'.call.request,
                                            result'.call.activity_data,
                                            result'.call.current_hour)
             /\ ResponseAsClaimed(result')]_vars

\* An evaluation at exactly 0.8 was answered as critical, with blocking, and
\* logged.
C16_Witness ==
    /\ result.op = "threat_detection"
    /\ result.risk_score = Rat(8, 10)
    /\ result.threat_level = "critical"
    /\ result.blocking_required
    /\ Len(result.recommended_actions) = 3
    /\ Len(security_events) = 1
    /\ security_events[1].severity = "critical"
    /\ security_events[1].risk_score = 80

\* The issue that names a character class.
IssueNaming ==
    [ upper   |-> "Add uppercase letters",
      lower   |-> "Add lowercase letters",
      digit   |-> "Add numbers",
      special |-> "Add special characters" ]

\* The classes of which a password has no character.
MissingClasses(password) ==
    { class \in DOMAIN IssueNaming :
        ~ \E i \in 1..Len(password) :
              CASE class = "upper"   -> isupper(password[i])
                [] class = "lower"   -> islower(password[i])
                [] class = "digit"   -> isdigit(password[i])
                [] class = "special" -> password[i] \in special_characters }

\* C17: for a password that lacks one or more of the four character classes
\* advanced_password_validation reports, for each missing class, the issue
\* that names it and does not report is_valid, whatever the length of the
\* password and the user context.
C17_MissingClassReportedNeverValid ==
    [][result'.op = "password_validation" =>
          LET call == result'.call
              missing == MissingClasses(call.password)
          IN  /\ advanced_password_validation(call.password, call.user_context)
              /\ \A class \in missing :
                     \E i \in 1..Len(result'.issues) :
                         result'.issues[i] = IssueNaming[class]
              /\ missing /= {} => ~result'.is_valid]_vars

\* A password of 12 characters that lacks a digit and a special character, and
\* nothing else, got exactly the two issues that name them.
C17_Witness ==
    /\ result.op = "password_validation"
    /\ Len(result.call.password) = 12
    /\ MissingClasses(result.call.password) = {"digit", "special"}
    /\ result.issues = <<"Add numbers", "Add special characters">>
    /\ ~result.is_valid
    /\ result.strength_score = 50

\* C18: while the store cannot be reached validate_jwt_token returns a payload
\* for no token.
C18_ValidationFailsClosed ==
    [][\A token \in Presentable :
          ValidateJwtTokenStoreDown(token) => result'.status /= "payload"]_vars

\* C19: while the store cannot be reached advanced_rate_limiting admits a
\* request of an ordinary action such as api_call: it returns True.
C19_RateLimitingFailsOpen ==
    [][\A request \in Requests :
          advanced_rate_limiting_store_down(request, request.user_id, "api_call")
          => result'.status = "True"]_vars

\* C20: with W workers, each in one advanced_rate_limiting call at a time, the
\* counter of a key, which counts the requests admitted on it since it was
\* created, never passes quota + W - 1: with one worker it never passes the
\* quota.
C20_OverAdmissionBounded ==
    \A k \in DOMAIN rate_counters :
        rate_counters[k].count <=
            limit_config(k[1]).requests + Cardinality(DOMAIN workers) - 1

\* Two workers have admitted one request more than the quota on the key they
\* share, within one window.
C20_Witness ==
    /\ Cardinality(DOMAIN workers) = 2
    /\ \A w \in DOMAIN workers : workers[w].pc = "idle"
    /\ result.status = "True"
    /\ \E k \in DOMAIN rate_counters :
           /\ k[2] = "ip"
           /\ rate_counters[k].count = limit_config(k[1]).requests + 1


\* C21: get_security_dashboard_data reports total_events equal to the number
\* of events the event log holds, whatever that number is, and leaves the
\* event log and the alert queue as they were.
C21_TotalEventsIsLogSize ==
    [][result'.op = "dashboard" =>
          /\ get_security_dashboard_data
          /\ result'.total_events = Len(security_events)
          /\ security_events' = security_events
          /\ security_alerts' = security_alerts]_vars

\* C22: a counter is created with the window of its action as its TTL, and
\* no request admitted on it afterwards moves the instant at which it expires:
\* the counter created at t is gone at t + window, however many requests were
\* admitted on its key in between.
C22_WindowIsFixedBucket ==
    [][/\ \A k \in DOMAIN rate_counters' \ DOMAIN rate_counters :
             rate_counters'[k].ttl = limit_config(k[1]).window
       /\ \A k \in DOMAIN rate_counters \cap DOMAIN rate_counters' :
             now' + rate_counters'[k].ttl = now + rate_counters[k].ttl
       /\ \A k \in DOMAIN rate_counters \ DOMAIN rate_counters' :
             now' >= now + rate_counters[k].ttl]_vars

\* The window of the policy a counter key belongs to.
WindowOf(k) ==
    IF k[1] = "mfa_attempts"
    THEN limit_config("mfa_attempt").window
    ELSE limit_config(k[1]).window

\* C23: under any interleaving of workers every counter in the store, a
\* request counter or the MFA attempt counter, has a count of at least 1 and
\* an expiry, with a remaining TTL of at most the window of its action.
C23_CountersAlwaysExpire ==
    \A k \in DOMAIN rate_counters :
        /\ rate_counters[k].count >= 1
        /\ rate_counters[k].ttl >= 1
        /\ rate_counters[k].ttl <= WindowOf(k)

\* Two workers are inside calls, one about to increment a request counter and
\* one about to verify an MFA code, and both kinds of counter exist.
C23_Witness ==
    /\ Cardinality(DOMAIN workers) = 2
    /\ \E w \in DOMAIN workers : workers[w].pc = "increment"
    /\ \E w \in DOMAIN workers : workers[w].pc = "mfa_verify"
    /\ mfa_key("u1") \in DOMAIN rate_counters
    /\ \E k \in DOMAIN rate_counters : k[1] = "password_reset"
    /\ now = 300

\* C24: a request that advanced_rate_limiting rejects changes no counter and
\* no counter's expiry, also not of the dimensions that were still under quota.
C24_RejectionChangesNoCounter ==
    [][\A request \in AllRequests, action \in AllActions :
          (RateLimitCall(request, action) /\ result'.status /= "True") =>
              /\ rate_counters' = rate_counters
              /\ now' = now]_vars

\* A request was rejected on one dimension while the counter of another
\* dimension of the same action stands under the quota, part of its window gone.
C24_Witness ==
    /\ result.status = "429"
    /\ \E k \in DOMAIN rate_counters :
           /\ k[1] = "password_reset"
           /\ rate_counters[k].count = limit_config(k[1]).requests
    /\ \E k \in DOMAIN rate_counters :
           /\ k[1] = "password_reset"
           /\ k[2] = "ip"
           /\ rate_counters[k].count < limit_config(k[1]).requests
           /\ rate_counters[k].ttl < limit_config(k[1]).window

\* C25: a correctly signed token that is both expired and without a ledger
\* record fails validation as expired (401, "Token has expired"), and a
\* validation whose decode fails, on the structure, the signature, nbf or exp,
\* reads no key of the store.
C25_DecodeBeforeLedger ==
    \A token \in Presentable :
        /\ (/\ token.form = "jws"
            /\ token.signed_with = secret_key
            /\ Expired(token, now)
            /\ HasJti(token)
            /\ ~HasRecord(token, jwt_ledger))
           => /\ validate_jwt_token(token, jwt_ledger, now).status = "401"
              /\ validate_jwt_token(token, jwt_ledger, now).detail = "Token has expired"
        /\ jwt_decode(token, secret_key, now, TRUE).error /= "none"
           => validate_reads(token, now) = {}
        /\ (jwt_decode(token, secret_key, now, TRUE).error = "none" /\ HasJti(token))
           => validate_reads(token, now) = {<<"jwt", token.payload.jti>>}

\* A token issued at 0 has reached its exp without a ledger record, and its
\* validation has failed as expired without a read.
C25_Witness ==
    /\ result.op = "validate"
    /\ result.detail = "Token has expired"
    /\ result.reads = {}
    /\ now = 3600
    /\ \E token \in minted :
           /\ HasJti(token)
           /\ token.payload.exp = 3600
           /\ token.payload.iat = 0
           /\ ~HasRecord(token, jwt_ledger)
    /\ \A token \in minted : HasJti(token) /\ token.payload.exp = 3600

\* C26: revoke_jwt_token returns True or False and raises nothing; for a
\* correctly signed token with a jti, expired or not, it returns True and the
\* ledger is left without the token's record and otherwise as it was; for a
\* malformed or wrongly signed token it returns False and the ledger is
\* left as it was.
C26_RevokeNeverRaises ==
    [][\A token \in Presentable :
          (result'.op = "revoke" /\ revoke_jwt_token(token)) =>
              /\ result'.status \in {"True", "False"}
              /\ (token.form = "jws" /\ token.signed_with = secret_key
                    /\ HasJti(token))
                 => /\ result'.status = "True"
                    /\ jwt_ledger' = ledger_delete(jwt_ledger, {token.payload.jti})
                    /\ ~HasRecord(token, jwt_ledger')
              /\ (token.form /= "jws" \/ token.signed_with /= secret_key)
                 => /\ result'.status = "False"
                    /\ jwt_ledger' = jwt_ledger]_vars

\* A revocation has returned False and the records of both issued tokens are
\* still in the ledger.
C26_Witness ==
    /\ result.op = "revoke"
    /\ result.status = "False"
    /\ Cardinality(minted) = 2
    /\ \A token \in minted : HasRecord(token, jwt_ledger)

\* C27: every token create_secure_jwt_token returns, for whatever token_type,
\* carries nbf = iat and an exp, iat + 3600 for access and iat + 604800 for
\* refresh, and its ledger record is written with a TTL of exp - iat.
C27_TokenAndRecordExpireTogether ==
    [][\A sub \in Subjects, token_type \in TokenTypes :
          (result'.op = "issue"
             /\ create_secure_jwt_token([sub |-> sub], token_type)) =>
              \A token \in minted' \ minted :
                  /\ token.payload.nbf = token.payload.iat
                  /\ IF "exp" \in DOMAIN token.payload
                     THEN /\ token_type = "access" =>
                                 token.payload.exp = token.payload.iat + 3600
                          /\ token_type = "refresh" =>
                                 token.payload.exp = token.payload.iat + 604800
                          /\ jwt_ledger'[token.payload.jti].ttl =
                                 token.payload.exp - token.payload.iat
                     ELSE FALSE]_vars

\* C28: revoke_jwt_token(token) changes the validation outcome of no other
\* issued token, of the same subject or not: each is accepted or refused after
\* the call exactly as before it.
C28_RevokeTouchesOneRecord ==
    [][\A token \in minted :
          (result'.op = "revoke" /\ now' = now /\ revoke_jwt_token(token)) =>
              \A other \in minted :
                  other.payload /= token.payload =>
                      validate_jwt_token(other, jwt_ledger', now')
                          = validate_jwt_token(other, jwt_ledger, now)]_vars

\* One of two tokens of a subject has been revoked and the other is still
\* accepted.
C28_Witness ==
    /\ result.op = "revoke"
    /\ result.status = "True"
    /\ \E token \in minted, other \in minted :
           /\ HasJti(token) /\ HasJti(other)
           /\ token.payload.sub = other.payload.sub
           /\ token.payload.token_type = "access"
           /\ other.payload.token_type = "refresh"
           /\ ~HasRecord(token, jwt_ledger)
           /\ ~Expired(token, now)
           /\ Accepts(other, jwt_ledger, now)

\* C29: a validate_mfa_token call that is not throttled and returns False, for
\* a wrong code, a user without a stored secret or a method other than TOTP,
\* leaves the event log and the alert queue as they were.
C29_PlainRejectionIsNotLogged ==
    [][\A user_id \in Users, token \in Codes, method \in MFAMethod :
          (/\ result'.op = "validate_mfa"
           /\ validate_mfa_token(user_id, token, method)
           /\ _check_rate_limit(rate_counters, mfa_key(user_id), "mfa_attempt")
           /\ result'.status = "False")
          => /\ security_events' = security_events
             /\ security_alerts' = security_alerts]_vars

\* A user with a stored secret has had several codes rejected, the last one a
\* verified wrong code, and nothing is in the event log or the alert queue.
C29_Witness ==
    /\ result.op = "validate_mfa"
    /\ result.detail = "verified"
    /\ result.status = "False"
    /\ "u1" \in DOMAIN mfa_secret
    /\ MfaAttempts("u1") >= 3
    /\ security_events = << >>
    /\ security_alerts = << >>

\* A user has no active secret: nothing is stored for the user, or what is
\* stored does not open with the service's key.
NoActiveSecret(user_id) ==
    IF user_id \in DOMAIN mfa_secret
    THEN fernet_decrypt(mfa_secret[user_id], encryption_key).error /= "none"
    ELSE TRUE

\* C30: for a user without an active secret, whether nothing is stored, the
\* stored value cannot be decrypted or the secret is only staged by an
\* enrollment, every validate_mfa_token call that is not throttled returns
\* False, for every code and method, and raises nothing.
C30_NoSecretNoAcceptance ==
    [][\A user_id \in Users, token \in Codes, method \in MFAMethod :
          (/\ result'.op = "validate_mfa"
           /\ validate_mfa_token(user_id, token, method)
           /\ _check_rate_limit(rate_counters, mfa_key(user_id), "mfa_attempt")
           /\ NoActiveSecret(user_id))
          => result'.status = "False"]_vars

\* A user whose secret is staged by an enrollment, and for whom a value sealed
\* with another key is stored, had a code verified and refused.
C30_Witness ==
    /\ result.op = "validate_mfa"
    /\ result.detail = "verified"
    /\ result.status = "False"
    /\ now = 0
    /\ "u1" \in DOMAIN mfa_setup
    /\ fernet_decrypt(mfa_setup["u1"].value, encryption_key).plaintext = "JBSWY3DP"
    /\ "u1" \in DOMAIN mfa_secret
    /\ mfa_secret["u1"].form = "fernet"
    /\ NoActiveSecret("u1")

\* C31: implement_multi_factor_authentication returns a result, and raises
\* nothing, for each of the four methods; for SMS and EMAIL the result is the
\* not-implemented acknowledgment and nothing is staged.
C31_EnrollmentUniformAcrossMethods ==
    [][\A user_id \in Users, method \in MFAMethod, secret \in Secrets :
          (/\ result'.op = "enroll"
           /\ implement_multi_factor_authentication(user_id, method, secret))
          => /\ result'.status = method
             /\ method \in {"sms", "email"} =>
                    /\ result'.detail = "not implemented yet"
                    /\ mfa_setup' = mfa_setup]_vars

\* The counter under a key, or nothing.
CounterAt(store, k) == IF k \in DOMAIN store THEN <<store[k]>> ELSE << >>

\* C32: an advanced_rate_limiting call, for any action, the action mfa_attempt
\* included, leaves the MFA attempt counter of every user as it was; a
\* validate_mfa_token call of one user leaves the MFA attempt counter of every
\* other user as it was and changes no counter of advanced_rate_limiting.
C32_MfaCountedSeparately ==
    [][/\ result'.op = "rate_limit" /\ now' = now =>
             \A user_id \in Users :
                 CounterAt(rate_counters', mfa_key(user_id))
                     = CounterAt(rate_counters, mfa_key(user_id))
       /\ \A user_id \in Users :
             (result'.op = "validate_mfa"
                /\ validate_mfa_token(user_id, WrongCode, "totp")) =>
                 /\ \A other \in Users \ {user_id} :
                        CounterAt(rate_counters', mfa_key(other))
                            = CounterAt(rate_counters, mfa_key(other))
                 /\ \A k \in DOMAIN rate_counters \cup DOMAIN rate_counters' :
                        Len(k) = 3 =>
                            CounterAt(rate_counters', k) = CounterAt(rate_counters, k)
      ]_vars

\* One user is throttled at 10 attempts while the other user's counter and the
\* limiter's own counter for the action mfa_attempt stand below 10.
C32_Witness ==
    /\ result.op = "validate_mfa"
    /\ result.detail = "throttled"
    /\ MfaAttempts("u1") = 10
    /\ MfaAttempts("u2") \in 1..9
    /\ \E k \in DOMAIN rate_counters :
           /\ k = <<"mfa_attempt", "user", "u1">>
           /\ rate_counters[k].count \in 1..9

\* C33: whatever the interleaving of the validate_mfa_token calls for one
\* user inside one 300 s window, at most 10 of them pass the attempt check
\* and are counted on their way to the verification of the code.
C33_AtMostTenVerifiedPerWindow == MfaAttempts("u1") <= 10

\* C34: each logged event becomes the head of security_events, and what
\* follows it is the log as it was, from its head on, in the same order and
\* with the same content, less only what is cut off at the tail.
C34_AppendOnlyNewestFirst ==
    [][\A event \in LoggedEvents :
          log_security_event(event) =>
              /\ Head(security_events') = event
              /\ Len(security_events') <= Len(security_events) + 1
              /\ Tail(security_events') =
                     SubSeq(security_events, 1, Len(security_events') - 1)]_vars

\* Three events were logged on top of a full log: they are its first three
\* entries, the earlier ones follow, and the oldest were cut off.
C34_Witness ==
    /\ result.op = "log"
    /\ Len(security_events) > 10000
    /\ security_events[1] = SecurityEvent("api_abuse", "medium", "login", 60)
    /\ security_events[2] = SecurityEvent("brute_force", "high", "mfa_brute_force", 80)
    /\ security_events[3] /= EarlierEvent
    /\ \A i \in 4..Len(security_events) : security_events[i] = EarlierEvent

\* C35: the length of security_alerts stays within a fixed bound, here the
\* 10,000 of the event log, the one cap the service names, after any sequence
\* of HIGH and CRITICAL events.
C35_AlertQueueBounded == Len(security_alerts) <= 10000

\* The workers that have appended a HIGH or CRITICAL event and not yet its alert.
AlertsPending ==
    {w \in DOMAIN workers :
        /\ workers[w].pc \in {"ltrim", "alert"}
        /\ workers[w].event.severity \in {"high", "critical"}}

\* The HIGH and CRITICAL events of the log.
AlertingEvents ==
    SelectSeq(security_events, LAMBDA e : e.severity \in {"high", "critical"})

\* C36: the alerts in the queue, with those still owed by workers between
\* their append and their alert, are as many as the HIGH and CRITICAL events
\* of the log: one alert per such event, none for a LOW or MEDIUM one, and no
\* alert before its event is in the log; every alert carries a HIGH or CRITICAL
\* severity, and no worker owes an alert for a LOW or MEDIUM event.
C36_OneAlertPerSevereEventAfterAppend ==
    /\ Len(security_alerts) + Cardinality(AlertsPending) = Len(AlertingEvents)
    /\ \A i \in DOMAIN security_alerts :
           security_alerts[i].severity \in {"high", "critical"}
    /\ \A w \in DOMAIN workers :
           workers[w].pc = "alert" => workers[w].event.severity \in {"high", "critical"}

\* C36 witness: every call has returned; the log holds a LOW or MEDIUM event, a
\* HIGH one and a CRITICAL one, and the queue the two alerts of the latter.
C36_Witness ==
    /\ \A w \in DOMAIN workers : workers[w].pc = "idle"
    /\ Len(security_events) = 3
    /\ \E i \in 1..3 : security_events[i].severity \in {"low", "medium"}
    /\ \E i \in 1..3 : security_events[i].severity = "high"
    /\ \E i \in 1..3 : security_events[i].severity = "critical"
    /\ Len(security_alerts) = 2
    /\ {security_alerts[1].severity, security_alerts[2].severity} = {"high", "critical"}


\* C37: an evaluation whose level is high or critical puts exactly one event
\* before the events of the log, with the six features it extracted in the
\* event's details and its level as the event's severity; an evaluation whose
\* level is low or medium leaves the log as it was.
C37_SevereEvaluationLoggedWithFeatures ==
    [][result'.op = "threat_detection" =>
          LET call == result'.call
              features == FeaturesOf(call.request, call.activity_data,
                                     call.current_hour)
          IN  /\ ai_powered_threat_detection("u1", call.request, call.activity_data,
                                             call.current_hour)
              /\ IF result'.threat_level \in {"high", "critical"}
                 THEN /\ Len(security_events') = Len(security_events) + 1
                      /\ Tail(security_events') = security_events
                      /\ Head(security_events').severity = result'.threat_level
                      /\ Head(security_events').event_type = "unusual_activity"
                      /\ Head(security_events').details.features = features
                      /\ DOMAIN features =
                             {feature_names[i] : i \in DOMAIN feature_names}
                 ELSE /\ result'.threat_level \in {"low", "medium"}
                      /\ security_events' = security_events]_vars

\* C37 witness: an evaluation from an unknown address and device came out high
\* and is the one event of the log, with both features at 1 in its details.
C37_Witness ==
    /\ result.op = "threat_detection"
    /\ result.threat_level = "high"
    /\ Len(security_events) = 1
    /\ security_events[1].severity = "high"
    /\ security_events[1].details.features.new_location = Rat(1, 1)
    /\ security_events[1].details.features.new_device = Rat(1, 1)
    /\ security_events[1].details.activity_data = result.call.activity_data


\* C38: an evaluation leaves the user's known addresses and known user agents
\* as they were (the typical hour is a fixed number of the code), so the same
\* request, evaluated again right after it, gets the new_location and
\* new_device it got: 1 again for an address or a device that was unknown.
C38_ScorerOnlyReadsHistory ==
    [][result'.op = "threat_detection" =>
          /\ ai_powered_threat_detection("u1", result'.call.request,
                                         result'.call.activity_data,
                                         result'.call.current_hour)
          /\ user_ips' = user_ips
          /\ user_agents' = user_agents
          /\ \A request \in ThreatRequests, activity_data \in ActivityData,
                current_hour \in Hours :
                  (/\ result'.call.request = request
                   /\ result'.call.activity_data = activity_data
                   /\ result'.call.current_hour = current_hour)
                  => LET seen == FeaturesOf(request, activity_data, current_hour)
                         again == FeaturesOf(request, activity_data, current_hour)'
                     IN  /\ again.new_location = seen.new_location
                         /\ again.new_device = seen.new_device]_vars

\* C38 witness: a medium evaluation, from an address and a device that were
\* unknown, has returned; the user still has no history, and the same request
\* evaluated now gets new_location = 1 and new_device = 1.
C38_Witness ==
    /\ result.op = "threat_detection"
    /\ result.threat_level = "medium"
    /\ result.risk_score = Rat(55, 100)
    /\ user_ips = << >>
    /\ user_agents = << >>
    /\ LET again == FeaturesOf(result.call.request, result.call.activity_data,
                               result.call.current_hour)
       IN  /\ again.new_location = Rat(1, 1)
           /\ again.new_device = Rat(1, 1)


\* C39: of two calls of secure_password_hashing that follow each other, the
\* second times no hash, the calibration being done, and hashes with the
\* rounds of the first.
C39_CalibratedOnceOneCost ==
    [][(result.op = "hash" /\ result'.op = "hash") =>
          /\ result'.benchmark_hashes = 0
          /\ result'.hashed.rounds = result.hashed.rounds]_vars

====
